---- MODULE Spec2Model ----
(***************************************************************************)
(* Model of the tab-bar store `core-tabbar` (src/unnamed/part_000): the    *)
(* ordered tab list, the keep-alive name set derived from it, the pinning  *)
(* and capacity rules of addTab, the close family and the reordering       *)
(* primitives, together with the router the store navigates through.       *)
(* Spec is the tab list under all its operations; KeySpec is getTabKey on   *)
(* its own, RefreshSpec the refresh cycle with its timers, PersistSpec the  *)
(* persisted tab list across a reload, NavSpec the closes when              *)
(* router.replace may reject, TitleSpec the custom titles, PinSpec pinTab   *)
(* and unpinTab called with any TabDefinition, ByKeySpec closeTabByKey      *)
(* over keys that hold escapes, FrameSpec the refresh cycle beside the      *)
(* operations on the list.                                                  *)
(*                                                                         *)
(* Conventions.  An optional JavaScript property is a set: {} when the     *)
(* property is missing, {v} when it holds v.  Sequences are 1-based, so    *)
(* findIndex returns 0 where the code's findIndex returns -1, and every    *)
(* index is the code's index plus one.                                     *)
(***************************************************************************)
EXTENDS Integers, Sequences, FiniteSets, TLC

VARIABLES
    tabs,          \* state.tabs: the stored TabDefinition list
    cachedTabs,    \* state.cachedTabs: Set<string> of component names
    dragEndIndex,  \* state.dragEndIndex
    maxCount,      \* preferences.tabbar.maxCount, read by addTab
    currentRoute,  \* router.currentRoute.value, as the id of a location
    routeAffix,    \* route records whose meta.affixTab was set by setAffixTabs
    pending,       \* the router.replace an operation is awaiting, or NoNav
    last,          \* the call that has just returned and the branch it took,
                   \* until its caller goes on
    excludeCachedTabs,  \* state.excludeCachedTabs: Set<string> of component names
    renderRouteView,    \* state.renderRouteView
    progress,      \* whether the progress bar of startProgress/stopProgress runs
    settling,      \* the refresh calls awaiting their 200 ms timer, oldest first
    storage,       \* what the persistence plugin holds of the store: the tab list
    keyTarget      \* the target getTabKey is called with, where it is called
                   \* on its own

vars == <<tabs, cachedTabs, dragEndIndex, maxCount, currentRoute, routeAffix,
          pending, last, excludeCachedTabs, renderRouteView, progress, settling,
          storage, keyTarget>>

\* The state of the refresh cycle, and all the state beside the tab list.
refreshVars == <<excludeCachedTabs, renderRouteView, progress, settling>>
besideTabs == <<refreshVars, storage, keyTarget>>

---------------------------------------------------------------------------
(* Bounds of the model.                                                    *)

\* Largest value of preferences.tabbar.maxCount tried (0 = unlimited).
MaxCountBound == 2
\* Cap on dragEndIndex: sortTabs, pinTab and unpinTab stop being called at it.
MaxDrag == 2
\* Most refresh calls that wait for their timer at the same time.
MaxSettling == 3

---------------------------------------------------------------------------
(* Optional values.                                                        *)

\* x ?? d
Get(opt, d) == IF opt = {} THEN d ELSE CHOOSE v \in opt : TRUE

\* Truthiness of an optional boolean (missing, undefined and false are falsy).
Truthy(opt) == opt = {TRUE}

---------------------------------------------------------------------------
(* The routes of the application the store is driven with.  "home" is a    *)
(* static route; "d1", "d2", "d3" are three locations of one dynamic route *)
(* named Detail, kept alive and capped at two open tabs by its             *)
(* meta.maxNumOfOpenTab; "login" hides itself from the tab strip and       *)
(* "secret" is hidden by its parent.                                       *)

VisibleIds == {"home", "d1", "d2", "d3"}
HiddenIds == {"login", "secret"}
RouteIds == VisibleIds \cup HiddenIds

\* One entry of `matched`, as cloneTab keeps it: {meta, name, path}.
Seg(n, hide) == [name |-> n, meta |-> [hideInTab |-> hide]]

RouteName(id) ==
    CASE id = "home" -> "Home"
      [] id \in {"d1", "d2", "d3"} -> "Detail"
      [] id = "login" -> "Login"
      [] id = "secret" -> "Secret"

RoutePath(id) ==
    CASE id = "home" -> "/home"
      [] id = "d1" -> "/detail/1"
      [] id = "d2" -> "/detail/2"
      [] id = "d3" -> "/detail/3"
      [] id = "login" -> "/login"
      [] id = "secret" -> "/admin/secret"

\* fullPath = path + query + hash; only d3 carries a query, percent-encoded.
RouteFullPath(id) == IF id = "d3" THEN "/detail/3?tag=a%20b" ELSE RoutePath(id)

RouteMatched(id) ==
    CASE id = "home" -> <<Seg("Root", {}), Seg("Home", {})>>
      [] id \in {"d1", "d2", "d3"} ->
            <<Seg("Root", {}), Seg("Layout", {}), Seg("Detail", {})>>
      [] id = "login" -> <<Seg("Login", {TRUE})>>
      [] id = "secret" -> <<Seg("Root", {}), Seg("Admin", {TRUE}), Seg("Secret", {})>>

\* The meta of a location: the merged meta of its matched records.  affix is
\* the set of static routes whose record meta.affixTab has been set.
RouteMeta(id, affix) ==
    [ title           |-> RouteName(id),
      affixTab        |-> IF id \in affix THEN {TRUE} ELSE {},
      affixTabOrder   |-> IF id = "home" THEN {1} ELSE {},
      newTabTitle     |-> {},
      keepAlive       |-> IF id \in {"d1", "d2", "d3"} THEN {TRUE} ELSE {},
      hideInTab       |-> IF id = "login" THEN {TRUE} ELSE {},
      fullPathKey     |-> {},
      maxNumOfOpenTab |-> IF id \in {"d1", "d2", "d3"} THEN {2} ELSE {} ]

\* A RouteLocationNormalized: what the router hands to addTab, and what
\* router.currentRoute.value is.  It has no `key`.  An undefined `matched` is
\* the empty sequence: every reader of it falls back to [].
Location(id, affix) ==
    [ key      |-> {},
      name     |-> RouteName(id),
      path     |-> RoutePath(id),
      fullPath |-> {RouteFullPath(id)},
      query    |-> {[pageKey |-> {}]},
      matched  |-> RouteMatched(id),
      meta     |-> RouteMeta(id, affix) ]

\* The location router.replace({path, params, query}) of a tab resolves to.
ResolvePath(path) == CHOOSE id \in RouteIds : RoutePath(id) = path

---------------------------------------------------------------------------
(* Helpers of the store module (part_000, lines 772-904).                  *)

\* A string of the model that holds a "%", as its characters: each "%" and
\* each of the two characters behind it stands alone, the stretches between
\* are kept whole.  Every other string of the model is free of "%".
Chars(s) ==
    CASE s = "/detail/3?tag=a%20b" -> <<"/detail/3?tag=a", "%", "2", "0", "b">>
      [] s = "a%20b" -> <<"a", "%", "2", "0", "b">>
      [] s = "100%" -> <<"100", "%">>
      [] s = "/caf%C3%A9" -> <<"/caf", "%", "C", "3", "%", "A", "9">>
      [] s = "/s?q=%E4%BD%A0" -> <<"/s?q=", "%", "E", "4", "%", "B", "D", "%", "A", "0">>
      [] s = "/s?q=%E4%BD" -> <<"/s?q=", "%", "E", "4", "%", "B", "D">>
      [] s = "/s?q=%zz" -> <<"/s?q=", "%", "z", "z">>
      [] s = "a%2520b" -> <<"a", "%", "2", "5", "2", "0", "b">>
      [] OTHER -> <<s>>

\* The strings of the model that hold a "%".
Escaped ==
    {"/detail/3?tag=a%20b", "a%20b", "100%", "/caf%C3%A9", "/s?q=%E4%BD%A0",
     "/s?q=%E4%BD", "/s?q=%zz", "a%2520b"}

HexDigits ==
    {"0", "1", "2", "3", "4", "5", "6", "7", "8", "9",
     "A", "B", "C", "D", "E", "F", "a", "b", "c", "d", "e", "f"}

hexValue(c) ==
    CASE c = "0" -> 0 [] c = "1" -> 1 [] c = "2" -> 2 [] c = "3" -> 3
      [] c = "4" -> 4 [] c = "5" -> 5 [] c = "6" -> 6 [] c = "7" -> 7
      [] c = "8" -> 8 [] c = "9" -> 9
      [] c \in {"A", "a"} -> 10 [] c \in {"B", "b"} -> 11
      [] c \in {"C", "c"} -> 12 [] c \in {"D", "d"} -> 13
      [] c \in {"E", "e"} -> 14 [] c \in {"F", "f"} -> 15

\* The printable characters of ASCII, from the blank (0x20) to "~" (0x7E);
\* the grave accent (0x60) is written by its code point.
Ascii ==
    << " ", "!", "\"", "#", "$", "%", "&", "'", "(", ")", "*", "+",
       ",", "-", ".", "/", "0", "1", "2", "3", "4", "5", "6", "7",
       "8", "9", ":", ";", "<", "=", ">", "?", "@", "A", "B", "C",
       "D", "E", "F", "G", "H", "I", "J", "K", "L", "M", "N", "O",
       "P", "Q", "R", "S", "T", "U", "V", "W", "X", "Y", "Z", "[",
       "\\", "]", "^", "_", "U+96", "a", "b", "c", "d", "e", "f", "g",
       "h", "i", "j", "k", "l", "m", "n", "o", "p", "q", "r", "s",
       "t", "u", "v", "w", "x", "y", "z", "{", "|", "}", "~" >>

\* String.fromCodePoint; a character outside printable ASCII is written as
\* "U+" and its code point.
fromCodePoint(cp) ==
    IF cp \in 32..126 THEN Ascii[cp - 31] ELSE "U+" \o ToString(cp)

\* The octet the escape at cs[i] stands for; {} when cs[i] is no "%" followed
\* by two hexadecimal digits.
octetAt(cs, i) ==
    IF /\ i + 2 <= Len(cs)
       /\ cs[i] = "%"
       /\ cs[i + 1] \in HexDigits
       /\ cs[i + 2] \in HexDigits
    THEN {16 * hexValue(cs[i + 1]) + hexValue(cs[i + 2])}
    ELSE {}

\* How many continuation octets a UTF-8 lead octet announces; -1 when the
\* octet cannot lead a sequence.
continuations(b) ==
    CASE b < 128 -> 0
      [] b \in 194..223 -> 1
      [] b \in 224..239 -> 2
      [] b \in 240..244 -> 3
      [] OTHER -> -1

\* The octets a valid second octet lies in, after the lead octet b (no
\* overlong form, no surrogate, nothing above U+10FFFF).
secondOctets(b) ==
    CASE b = 224 -> 160..191
      [] b = 237 -> 128..159
      [] b = 240 -> 144..191
      [] b = 244 -> 128..143
      [] OTHER -> 128..191

\* The code point of the UTF-8 sequence that starts with the escape at
\* cs[i]; {} when the escapes there are no valid sequence.
codePointAt(cs, i) ==
    LET lead == octetAt(cs, i)
        b == Get(lead, 0)
        n == continuations(b)
        follow(k) == Get(octetAt(cs, i + 3 * k), 0)
        valid == /\ lead # {}
                 /\ n >= 0
                 /\ \A k \in 1..n :
                        /\ octetAt(cs, i + 3 * k) # {}
                        /\ follow(k) \in (IF k = 1 THEN secondOctets(b) ELSE 128..191)
    IN IF ~valid THEN {}
       ELSE CASE n = 0 -> {b}
              [] n = 1 -> {(b - 192) * 64 + (follow(1) - 128)}
              [] n = 2 -> {(b - 224) * 4096 + (follow(1) - 128) * 64 + (follow(2) - 128)}
              [] n = 3 -> {(b - 240) * 262144 + (follow(1) - 128) * 4096
                              + (follow(2) - 128) * 64 + (follow(3) - 128)}

\* The decoding of cs from position i on: {} when an escape is malformed
\* (URIError), else the decoded string.
RECURSIVE decodeFrom(_, _)
decodeFrom(cs, i) ==
    IF i > Len(cs) THEN {""}
    ELSE IF cs[i] # "%"
    THEN {cs[i] \o rest : rest \in decodeFrom(cs, i + 1)}
    ELSE LET cp == codePointAt(cs, i)
             n == continuations(Get(octetAt(cs, i), 0))
         IN IF cp = {} THEN {}
            ELSE {fromCodePoint(Get(cp, 0)) \o rest :
                      rest \in decodeFrom(cs, i + 3 * (n + 1))}

\* decodeURIComponent: the decoded string, or {} where it throws URIError.  A
\* string without "%" decodes to itself.
decodeURIComponent(s) == IF s \in Escaped THEN decodeFrom(Chars(s), 1) ELSE {s}

\* query.pageKey, of an array its first element: {} when the query has no
\* pageKey or an empty array.  A pageKey the query holds is [array, items]:
\* the array's elements, or the one scalar.
firstOf(given) ==
    IF given = {} THEN {}
    ELSE LET v == CHOOSE held \in given : TRUE
         IN IF v.array
            THEN IF v.items = <<>> THEN {} ELSE {v.items[1]}
            ELSE {v.items[1]}

\* getTabKey that lets the error of decodeURIComponent out.
getTabKeyThrowing(tab) ==
    LET query == Get(tab.query, [pageKey |-> {}])
        pageKey == firstOf(query.pageKey)
        rawKey == IF pageKey # {} /\ pageKey # {""} THEN Get(pageKey, "")
                  ELSE IF tab.meta.fullPathKey = {FALSE} THEN tab.path
                  ELSE Get(tab.fullPath, tab.path)
    IN Get(decodeURIComponent(rawKey), "URIError")

\* getTabKey: query.pageKey first (of an array its first element) when it is
\* truthy, then path when meta.fullPathKey === false, else fullPath ?? path;
\* the raw key is then percent-decoded, and kept as it is when decoding
\* throws.
getTabKey(tab) ==
    LET query == Get(tab.query, [pageKey |-> {}])
        pageKey == firstOf(query.pageKey)
        rawKey == IF pageKey # {} /\ pageKey # {""} THEN Get(pageKey, "")
                  ELSE IF tab.meta.fullPathKey = {FALSE} THEN tab.path
                  ELSE Get(tab.fullPath, tab.path)
    IN Get(decodeURIComponent(rawKey), rawKey)

\* getTabKeyFromTab: tab.key ?? getTabKey(tab)
getTabKeyFromTab(tab) == IF tab.key # {} THEN Get(tab.key, "") ELSE getTabKey(tab)

equalTab(a, b) == getTabKeyFromTab(a) = getTabKeyFromTab(b)

\* isAffixTab: tab?.meta?.affixTab ?? false
isAffixTab(tab) == Truthy(tab.meta.affixTab)

\* isTabShown that reads the tab's own meta only.
isTabShownOwnMeta(tab) == ~Truthy(tab.meta.hideInTab)

\* isTabShown: neither the tab nor any matched record has meta.hideInTab.
isTabShown(tab) ==
    /\ ~Truthy(tab.meta.hideInTab)
    /\ \A i \in DOMAIN tab.matched : ~Truthy(tab.matched[i].meta.hideInTab)

\* cloneTab: a copy whose meta always owns the property newTabTitle, with the
\* value undefined when the route's meta does not have it.
cloneTab(route) ==
    [route EXCEPT !.meta.newTabTitle =
        IF route.meta.newTabTitle = {} THEN {"undefined"} ELSE route.meta.newTabTitle]

\* routeToTab: {meta, name, path, key} of a route record: no fullPath, no
\* query and no matched, so its key is its path.
routeToTab(id, affix) ==
    LET record == [Location(id, affix) EXCEPT
                      !.fullPath = {}, !.query = {}, !.matched = <<>>]
    IN [record EXCEPT !.key = {getTabKey(record)}]

\* The index Array.prototype.findIndex returns for the predicate that holds
\* at the positions S: the smallest of them, 0 (the code's -1) when none.
firstIndex(S) == IF S = {} THEN 0 ELSE CHOOSE i \in S : \A j \in S : i <= j

\* ts.findIndex((item) => equalTab(item, tab))
indexOfTab(ts, tab) == firstIndex({i \in DOMAIN ts : equalTab(ts[i], tab)})

\* ts.splice(i, 1): the list without its element at i.
removeAt(ts, i) == SubSeq(ts, 1, i - 1) \o SubSeq(ts, i + 1, Len(ts))

\* ts.splice(i, 0, t): t inserted before position i (appended when i is past
\* the end).
insertAt(ts, i, t) ==
    LET k == IF i > Len(ts) + 1 THEN Len(ts) + 1 ELSE i
    IN SubSeq(ts, 1, k - 1) \o <<t>> \o SubSeq(ts, k, Len(ts))

\* ts.splice(i, 1, t): the element at i replaced by t.
replaceAt(ts, i, t) == [ts EXCEPT ![i] = t]

---------------------------------------------------------------------------
(* Getters and the cache-name computation.                                 *)

\* (a.meta?.affixTabOrder ?? 0)
orderOf(tab) == Get(tab.meta.affixTabOrder, 0)

\* One step of the stable sort: t goes behind every element whose order is
\* not greater than its own.
insertByOrder(sorted, t) ==
    LET k == Cardinality({i \in DOMAIN sorted : orderOf(sorted[i]) <= orderOf(t)})
    IN SubSeq(sorted, 1, k) \o <<t>> \o SubSeq(sorted, k + 1, Len(sorted))

\* Array.prototype.toSorted((a, b) => orderA - orderB): ascending and stable.
RECURSIVE toSorted(_)
toSorted(ts) ==
    IF ts = <<>> THEN <<>>
    ELSE insertByOrder(toSorted(SubSeq(ts, 1, Len(ts) - 1)), ts[Len(ts)])

\* getters.affixTabs: the pinned tabs, sorted by affixTabOrder.
affixTabs(ts) == toSorted(SelectSeq(ts, isAffixTab))

\* The tabs that are not pinned, in storage order.
normalTabs(ts) == SelectSeq(ts, LAMBDA t : ~isAffixTab(t))

\* getTabs that hands out the stored list as it is.
getTabsStored(ts) == ts

\* getters.getTabs: [...affixTabs, ...normalTabs]
getTabs(ts) == affixTabs(ts) \o normalTabs(ts)

\* cacheNamesOf with the loop over matched started at its first entry.
cacheNamesOfWithRoot(tab) ==
    IF ~Truthy(tab.meta.keepAlive) THEN {}
    ELSE {tab.matched[i].name : i \in 1..Len(tab.matched)} \cup {tab.name}

\* The names one tab contributes to the cache set: nothing unless
\* meta.keepAlive is truthy, else its matched names from the second entry on
\* and its own name.
cacheNamesOf(tab) ==
    IF ~Truthy(tab.meta.keepAlive) THEN {}
    ELSE {tab.matched[i].name : i \in 2..Len(tab.matched)} \cup {tab.name}

\* updateCacheTabs: the loop over this.tabs that fills cacheMap.
RECURSIVE cacheMap(_)
cacheMap(ts) ==
    IF ts = <<>> THEN {} ELSE cacheNamesOf(Head(ts)) \cup cacheMap(Tail(ts))

---------------------------------------------------------------------------
(* addTab.                                                                 *)

\* One property of {...currentTab.meta, ...tab.meta}: the new value when the
\* new meta has the property, else the old one.
spread(old, new) == IF new # {} THEN new ELSE old

\* The merge without the two properties put back: a plain spread of the new
\* meta over the stored one.
mergeTabPlain(currentTab, tab) ==
    LET cur == currentTab.meta
        new == tab.meta
    IN [ key      |-> spread(currentTab.key, tab.key),
         name     |-> tab.name,
         path     |-> tab.path,
         fullPath |-> spread(currentTab.fullPath, tab.fullPath),
         query    |-> spread(currentTab.query, tab.query),
         matched  |-> tab.matched,
         meta     |->
            [ title           |-> new.title,
              affixTab        |-> spread(cur.affixTab, new.affixTab),
              affixTabOrder   |-> spread(cur.affixTabOrder, new.affixTabOrder),
              newTabTitle     |-> spread(cur.newTabTitle, new.newTabTitle),
              keepAlive       |-> spread(cur.keepAlive, new.keepAlive),
              hideInTab       |-> spread(cur.hideInTab, new.hideInTab),
              fullPathKey     |-> spread(cur.fullPathKey, new.fullPathKey),
              maxNumOfOpenTab |-> spread(cur.maxNumOfOpenTab, new.maxNumOfOpenTab) ] ]

\* The merge of addTab's else-branch: fields and meta of the new tab over the
\* stored one, then affixTab and newTabTitle put back from the stored meta
\* when it has them (Reflect.has).
mergeTab(currentTab, tab) ==
    LET cur == currentTab.meta
        new == tab.meta
    IN [ key      |-> spread(currentTab.key, tab.key),
         name     |-> tab.name,
         path     |-> tab.path,
         fullPath |-> spread(currentTab.fullPath, tab.fullPath),
         query    |-> spread(currentTab.query, tab.query),
         matched  |-> tab.matched,
         meta     |->
            [ title           |-> new.title,
              affixTab        |-> IF cur.affixTab # {} THEN cur.affixTab
                                  ELSE new.affixTab,
              affixTabOrder   |-> spread(cur.affixTabOrder, new.affixTabOrder),
              newTabTitle     |-> IF cur.newTabTitle # {} THEN cur.newTabTitle
                                  ELSE new.newTabTitle,
              keepAlive       |-> spread(cur.keepAlive, new.keepAlive),
              hideInTab       |-> spread(cur.hideInTab, new.hideInTab),
              fullPathKey     |-> spread(cur.fullPathKey, new.fullPathKey),
              maxNumOfOpenTab |-> spread(cur.maxNumOfOpenTab, new.maxNumOfOpenTab) ] ]

\* The record addTab works with: the clone, with its key generated when the
\* route has none.
tabOf(routeTab) ==
    LET tab == cloneTab(routeTab)
    IN IF tab.key = {} THEN [tab EXCEPT !.key = {getTabKey(routeTab)}] ELSE tab

\* The positions of the stored tabs that share the route's name.
sameNameIndexes(ts, routeTab) == {i \in DOMAIN ts : ts[i].name = routeTab.name}

\* closableIndexes that takes every position, pinned or not.
closableIndexesAll(ts) == DOMAIN ts

\* The positions of the tabs the global limit may close:
\* !Reflect.has(item.meta, 'affixTab') || !item.meta.affixTab
closableIndexes(ts) ==
    {i \in DOMAIN ts : ts[i].meta.affixTab = {} \/ ~Truthy(ts[i].meta.affixTab)}

\* Whether the per-route limit applies to the insertion of routeTab.
nameCapReached(ts, routeTab) ==
    LET maxNumOfOpenTab == Get(routeTab.meta.maxNumOfOpenTab, -1)
    IN /\ maxNumOfOpenTab > 0
       /\ Cardinality(sameNameIndexes(ts, routeTab)) >= maxNumOfOpenTab

\* Whether the global limit is reached: maxCount > 0 && tabs.length >= maxCount
globalCapReached(ts, mc) == mc > 0 /\ Len(ts) >= mc

\* evictIndex with the two limits tested in the other order.
evictIndexGlobalFirst(ts, routeTab, mc) ==
    IF globalCapReached(ts, mc) THEN firstIndex(closableIndexes(ts))
    ELSE IF nameCapReached(ts, routeTab) THEN firstIndex(sameNameIndexes(ts, routeTab))
    ELSE 0

\* The position addTab splices out before it pushes a new tab, 0 for none:
\* the first tab of the same name when the per-route limit applies, else the
\* first closable tab when the global limit is reached.
evictIndex(ts, routeTab, mc) ==
    IF nameCapReached(ts, routeTab) THEN firstIndex(sameNameIndexes(ts, routeTab))
    ELSE IF globalCapReached(ts, mc) THEN firstIndex(closableIndexes(ts))
    ELSE 0

\* The branch addTab takes.
addTabHow(ts, routeTab, mc) ==
    LET tab == tabOf(routeTab)
    IN IF ~isTabShown(tab) THEN "hidden"
       ELSE IF indexOfTab(ts, tab) # 0 THEN "merge"
       ELSE IF nameCapReached(ts, routeTab) THEN "evictName"
       ELSE IF globalCapReached(ts, mc) THEN
            (IF closableIndexes(ts) # {} THEN "evictGlobal" ELSE "full")
       ELSE "insert"

\* addTab without the lookup of the existing tab: every shown tab is pushed.
addTabTabsAlwaysPush(ts, routeTab, mc) ==
    LET tab == tabOf(routeTab)
        index == evictIndex(ts, routeTab, mc)
    IN IF ~isTabShown(tab) THEN ts
       ELSE Append(IF index # 0 THEN removeAt(ts, index) ELSE ts, tab)

\* addTab whose merge takes the stored tab out and pushes the merged one.
addTabTabsMoveToEnd(ts, routeTab, mc) ==
    LET tab == tabOf(routeTab)
        tabIndex == indexOfTab(ts, tab)
        index == evictIndex(ts, routeTab, mc)
    IN IF ~isTabShown(tab) THEN ts
       ELSE IF tabIndex = 0
            THEN Append(IF index # 0 THEN removeAt(ts, index) ELSE ts, tab)
            ELSE Append(removeAt(ts, tabIndex), mergeTab(ts[tabIndex], tab))

\* this.tabs after addTab(routeTab).
addTabTabs(ts, routeTab, mc) ==
    LET tab == tabOf(routeTab)
        tabIndex == indexOfTab(ts, tab)
        index == evictIndex(ts, routeTab, mc)
    IN IF ~isTabShown(tab) THEN ts
       ELSE IF tabIndex = 0
            THEN Append(IF index # 0 THEN removeAt(ts, index) ELSE ts, tab)
            ELSE replaceAt(ts, tabIndex, mergeTab(ts[tabIndex], tab))

---------------------------------------------------------------------------
(* The state after construction, and what the callers pass in.             *)

NoNav == [op |-> "none", to |-> "none"]

\* The call op(key) returned after taking the branch how; key is the key of
\* the tab it was called with, "" for a call without one.
Did(op, how, key) == [op |-> op, how |-> how, key |-> key]

\* getTabKey is not being called on its own.
NoTarget == <<>>

\* No call is outstanding: the caller is free to make the next one.
Ready == Did("", "", "")

Idle == pending = NoNav /\ last = Ready

\* state(): no tabs, empty sets, dragEndIndex 0.  The preference maxCount and
\* the location the application starts on are the environment's.
Init ==
    /\ tabs = <<>>
    /\ cachedTabs = {}
    /\ dragEndIndex = 0
    /\ maxCount \in 0..MaxCountBound
    /\ currentRoute \in {"home", "d1"}
    /\ routeAffix = {}
    /\ Idle
    /\ last = Ready
    /\ excludeCachedTabs = {}
    /\ renderRouteView = TRUE
    /\ progress = FALSE
    /\ settling = <<>>
    /\ storage = <<>>
    /\ keyTarget = NoTarget

\* router.currentRoute.value
currentLocation == Location(currentRoute, routeAffix)

\* The records of the store.
StoredTabs == {tabs[i] : i \in DOMAIN tabs}

\* The tabs a caller passes to pinTab, unpinTab and the bulk closes: a record
\* of the store (the tab strip hands over what getTabs gave it), or a location
\* that has no tab.  The bulk closes read only the key of their argument.
StoredOrAbsent ==
    StoredTabs \cup {Location(id, routeAffix) : id \in
                        {r \in VisibleIds : indexOfTab(tabs, Location(r, routeAffix)) = 0}}

\* The tabs a caller passes to closeTab: a record of the store, or a location
\* of the router (the current route, as in closeTab(route, router)).
ArgTabs == StoredTabs \cup {Location(id, routeAffix) : id \in VisibleIds}

\* The locations whose view sets a title of its own with setTabTitle.
TitledIds == {"d1"}

\* The route lists setAffixTabs is called with.
AffixRouteLists == {<<"home">>}

\* The titles setTabTitle is called with.
Titles == {"Custom"}

---------------------------------------------------------------------------
(* Actions of the store.  A call runs to its return in one step and leaves *)
(* its name and branch in `last`; the caller then goes on (Continue) and   *)
(* makes the next call.  An operation that awaits router.replace leaves    *)
(* the navigation in `pending` and returns in routerReplaceDone; its       *)
(* caller awaits it, so no other operation starts in between.              *)

\* addTab(routeTab), called with a location of the router.
addTabRoute(routeTab) ==
    LET how == addTabHow(tabs, routeTab, maxCount)
    IN /\ Idle
       /\ tabs' = addTabTabs(tabs, routeTab, maxCount)
       /\ cachedTabs' = IF how = "hidden" THEN cachedTabs ELSE cacheMap(tabs')
       /\ last' = Did("addTab", how, getTabKeyFromTab(tabOf(routeTab)))
       /\ UNCHANGED <<dragEndIndex, maxCount, currentRoute, routeAffix, pending>>

addTab(id) ==
    LET routeTab == Location(id, routeAffix)
        how == addTabHow(tabs, routeTab, maxCount)
    IN /\ Idle
       /\ tabs' = addTabTabs(tabs, routeTab, maxCount)
       /\ cachedTabs' = IF how = "hidden" THEN cachedTabs ELSE cacheMap(tabs')
       /\ last' = Did("addTab", how, getTabKeyFromTab(tabOf(routeTab)))
       /\ UNCHANGED <<dragEndIndex, maxCount, currentRoute, routeAffix, pending>>

\* _close that splices out the first tab instead of the one found.
closeTabsFirst(ts, tab) ==
    IF isAffixTab(tab) \/ ts = <<>> THEN ts ELSE removeAt(ts, 1)

\* this.tabs after _close(tab): nothing when the tab passed in is pinned,
\* else the stored tab of that key spliced out.
closeTabs(ts, tab) ==
    LET index == indexOfTab(ts, tab)
    IN IF isAffixTab(tab) \/ index = 0 THEN ts ELSE removeAt(ts, index)

\* neighbourOf that falls back to the current tab itself.
neighbourOfSelf(ts, key) ==
    LET view == getTabs(ts)
        index == firstIndex({i \in DOMAIN view : getTabKeyFromTab(view[i]) = key})
    IN IF index + 1 \in DOMAIN view THEN {view[index + 1]}
       ELSE IF index - 1 \in DOMAIN view THEN {view[index - 1]}
       ELSE IF index \in DOMAIN view THEN {view[index]}
       ELSE {}

\* neighbourOf that looks before the current tab first.
neighbourOfBeforeFirst(ts, key) ==
    LET view == getTabs(ts)
        index == firstIndex({i \in DOMAIN view : getTabKeyFromTab(view[i]) = key})
    IN IF index - 1 \in DOMAIN view THEN {view[index - 1]}
       ELSE IF index + 1 \in DOMAIN view THEN {view[index + 1]}
       ELSE {}

\* The tab closeTab navigates to when the tab closed is the active one: the
\* entry of getTabs behind the current route's, else the one before it; {}
\* when there is neither.
neighbourOf(ts, key) ==
    LET view == getTabs(ts)
        index == firstIndex({i \in DOMAIN view : getTabKeyFromTab(view[i]) = key})
    IN IF index + 1 \in DOMAIN view THEN {view[index + 1]}
       ELSE IF index - 1 \in DOMAIN view THEN {view[index - 1]}
       ELSE {}

\* _goToTab: router.replace({params, path, query}) of the tab, awaited.
goToTab(op, tab) == [op |-> op, to |-> ResolvePath(tab.path)]

\* closeTab that navigates first and leaves the removal for later.
closeTabNavigatesFirst(tab) ==
    LET key == getTabKey(currentLocation)
        target == neighbourOf(tabs, key)
    IN /\ Idle
       /\ IF key # getTabKeyFromTab(tab)
          THEN /\ tabs' = closeTabs(tabs, tab)
               /\ cachedTabs' = cacheMap(tabs')
               /\ pending' = pending
               /\ last' = Did("closeTab", "inactive", getTabKeyFromTab(tab))
          ELSE IF target # {}
          THEN /\ tabs' = tabs
               /\ pending' = goToTab("closeTab", Get(target, tab))
               /\ cachedTabs' = cachedTabs
               /\ last' = Did("closeTab", "active", getTabKeyFromTab(tab))
          ELSE /\ UNCHANGED <<tabs, cachedTabs, pending>>
               /\ last' = Did("closeTab", "sole", getTabKeyFromTab(tab))
       /\ UNCHANGED <<dragEndIndex, maxCount, currentRoute, routeAffix>>

\* closeTab(tab, router)
closeTab(tab) ==
    LET key == getTabKey(currentLocation)
        target == neighbourOf(tabs, key)
    IN /\ Idle
       /\ IF key # getTabKeyFromTab(tab)
          THEN /\ tabs' = closeTabs(tabs, tab)
               /\ cachedTabs' = cacheMap(tabs')
               /\ pending' = pending
               /\ last' = Did("closeTab", "inactive", getTabKeyFromTab(tab))
          ELSE IF target # {}
          THEN /\ tabs' = closeTabs(tabs, tab)
               /\ pending' = goToTab("closeTab", Get(target, tab))
               /\ cachedTabs' = cachedTabs
               /\ last' = Did("closeTab", "active", getTabKeyFromTab(tab))
          ELSE /\ UNCHANGED <<tabs, cachedTabs, pending>>
               /\ last' = Did("closeTab", "sole", getTabKeyFromTab(tab))
       /\ UNCHANGED <<dragEndIndex, maxCount, currentRoute, routeAffix>>

\* router.replace resolves: the location changes, and the operation that
\* awaited it runs to its end (closeAllTabs still has updateCacheTabs to do).
routerReplaceDone ==
    /\ pending # NoNav
    /\ currentRoute' = pending.to
    /\ cachedTabs' = IF pending.op = "closeAllTabs" THEN cacheMap(tabs) ELSE cachedTabs
    /\ pending' = NoNav
    /\ last' = Did(pending.op, "navigated", "")
    /\ UNCHANGED <<tabs, dragEndIndex, maxCount, routeAffix>>

\* The user navigates (router.push): only the router's location changes; it
\* is no call of the store.
navigate(id) ==
    /\ Idle
    /\ currentRoute' = id
    /\ UNCHANGED <<tabs, cachedTabs, dragEndIndex, maxCount, routeAffix, pending, last>>

\* _bulkCloseByKeys: the tabs whose key is not in keys.
bulkCloseByKeys(ts, keys) ==
    SelectSeq(ts, LAMBDA item : getTabKeyFromTab(item) \notin keys)

\* closableKeys that collects the keys of the pinned tabs too.
closableKeysAll(ts, S) == UNION {ts[i].key : i \in S}

\* The keys a bulk close collects from the positions S: item.key of every tab
\* there that is not pinned (nothing for a tab stored without a key).
closableKeys(ts, S) == UNION {ts[i].key : i \in {j \in S : ~isAffixTab(ts[j])}}

\* this.tabs after closeLeftTabs(tab): untouched when the tab is the first or
\* is not stored.
closeLeftTabsTabs(ts, tab) ==
    LET index == indexOfTab(ts, tab)
    IN IF index < 2 THEN ts
       ELSE bulkCloseByKeys(ts, closableKeys(ts, 1..(index - 1)))

\* this.tabs after closeRightTabs(tab): untouched when the tab is the last or
\* is not stored.
closeRightTabsTabs(ts, tab) ==
    LET index == indexOfTab(ts, tab)
    IN IF index # 0 /\ index < Len(ts)
       THEN bulkCloseByKeys(ts, closableKeys(ts, (index + 1)..Len(ts)))
       ELSE ts

\* this.tabs after closeOtherTabs(tab).
closeOtherTabsTabs(ts, tab) ==
    bulkCloseByKeys(ts, closableKeys(ts,
        {i \in DOMAIN ts : getTabKeyFromTab(ts[i]) # getTabKeyFromTab(tab)}))

\* closeAllTabs without the fallback to the first tab.
closeAllTabsTabsPinnedOnly(ts) == SelectSeq(ts, isAffixTab)

\* this.tabs after closeAllTabs: the pinned tabs, or the first tab when none
\* is pinned.
closeAllTabsTabs(ts) ==
    LET newTabs == SelectSeq(ts, isAffixTab)
    IN IF Len(newTabs) > 0 THEN newTabs
       ELSE IF ts = <<>> THEN <<>> ELSE <<ts[1]>>

\* The bulk closes by side; the branch recorded is "closed" when tabs were
\* removed and "kept" when none was.
closeLeftTabs(tab) ==
    /\ Idle
    /\ tabs' = closeLeftTabsTabs(tabs, tab)
    /\ cachedTabs' = IF indexOfTab(tabs, tab) < 2 THEN cachedTabs ELSE cacheMap(tabs')
    /\ last' = Did("closeLeftTabs", IF tabs' = tabs THEN "kept" ELSE "closed",
                 getTabKeyFromTab(tab))
    /\ UNCHANGED <<dragEndIndex, maxCount, currentRoute, routeAffix, pending>>

closeRightTabs(tab) ==
    /\ Idle
    /\ tabs' = closeRightTabsTabs(tabs, tab)
    /\ cachedTabs' = IF indexOfTab(tabs, tab) # 0 /\ indexOfTab(tabs, tab) < Len(tabs)
                     THEN cacheMap(tabs') ELSE cachedTabs
    /\ last' = Did("closeRightTabs", IF tabs' = tabs THEN "kept" ELSE "closed",
                 getTabKeyFromTab(tab))
    /\ UNCHANGED <<dragEndIndex, maxCount, currentRoute, routeAffix, pending>>

closeOtherTabs(tab) ==
    /\ Idle
    /\ tabs' = closeOtherTabsTabs(tabs, tab)
    /\ cachedTabs' = cacheMap(tabs')
    /\ last' = Did("closeOtherTabs", IF tabs' = tabs THEN "kept" ELSE "closed",
                 getTabKeyFromTab(tab))
    /\ UNCHANGED <<dragEndIndex, maxCount, currentRoute, routeAffix, pending>>

\* closeAllTabs(router): the list is cut, _goToDefaultTab navigates to the
\* first tab of getTabs when there is one, and the cache is updated after it.
closeAllTabs ==
    /\ Idle
    /\ tabs' = closeAllTabsTabs(tabs)
    /\ IF Len(getTabs(tabs')) <= 0
       THEN /\ cachedTabs' = cacheMap(tabs')
            /\ pending' = pending
            /\ last' = Did("closeAllTabs", "empty", "")
       ELSE /\ cachedTabs' = cachedTabs
            /\ pending' = goToTab("closeAllTabs", getTabs(tabs')[1])
            /\ last' = Did("closeAllTabs", "cut", "")
    /\ UNCHANGED <<dragEndIndex, maxCount, currentRoute, routeAffix>>

\* sortTabs that writes the tab over the one at newIndex.
sortTabsTabsOverwrite(ts, oldIndex, newIndex) ==
    IF newIndex \in DOMAIN ts THEN replaceAt(ts, newIndex, ts[oldIndex]) ELSE ts

\* this.tabs after sortTabs(oldIndex, newIndex) for a valid oldIndex.
sortTabsTabs(ts, oldIndex, newIndex) ==
    insertAt(removeAt(ts, oldIndex), newIndex, ts[oldIndex])

\* sortTabs(oldIndex, newIndex): nothing when there is no tab at oldIndex.
sortTabs(oldIndex, newIndex) ==
    /\ Idle
    /\ dragEndIndex < MaxDrag
    /\ IF oldIndex \in DOMAIN tabs
       THEN /\ tabs' = sortTabsTabs(tabs, oldIndex, newIndex)
            /\ dragEndIndex' = dragEndIndex + 1
            /\ last' = Did("sortTabs", "moved", "")
       ELSE /\ UNCHANGED <<tabs, dragEndIndex>>
            /\ last' = Did("sortTabs", "missing", "")
    /\ UNCHANGED <<cachedTabs, maxCount, currentRoute, routeAffix, pending>>

\* The record pinTab and unpinTab store: the tab passed in with meta.affixTab
\* set and meta.title taken from the stored tab.
withAffix(tab, oldTab, affix) ==
    [tab EXCEPT !.meta.affixTab = {affix}, !.meta.title = oldTab.meta.title]

\* this.tabs after pinTab(tab) for a stored tab: replaced in place, then
\* moved to its index among the pinned tabs.
pinTabTabs(ts, tab) ==
    LET index == indexOfTab(ts, tab)
        replaced == replaceAt(ts, index, withAffix(tab, ts[index], TRUE))
        newIndex == indexOfTab(SelectSeq(replaced, isAffixTab), tab)
    IN sortTabsTabs(replaced, index, newIndex)

\* this.tabs after unpinTab(tab) for a stored tab: replaced in place, then
\* moved behind the pinned tabs.
unpinTabTabs(ts, tab) ==
    LET index == indexOfTab(ts, tab)
        replaced == replaceAt(ts, index, withAffix(tab, ts[index], FALSE))
        newIndex == Len(SelectSeq(replaced, isAffixTab)) + 1
    IN sortTabsTabs(replaced, index, newIndex)

pinTab(tab) ==
    /\ Idle
    /\ dragEndIndex < MaxDrag
    /\ IF indexOfTab(tabs, tab) # 0
       THEN /\ tabs' = pinTabTabs(tabs, tab)
            /\ dragEndIndex' = dragEndIndex + 1
            /\ last' = Did("pinTab", "pinned", getTabKeyFromTab(tab))
       ELSE /\ UNCHANGED <<tabs, dragEndIndex>>
            /\ last' = Did("pinTab", "missing", getTabKeyFromTab(tab))
    /\ UNCHANGED <<cachedTabs, maxCount, currentRoute, routeAffix, pending>>

unpinTab(tab) ==
    /\ Idle
    /\ dragEndIndex < MaxDrag
    /\ IF indexOfTab(tabs, tab) # 0
       THEN /\ tabs' = unpinTabTabs(tabs, tab)
            /\ dragEndIndex' = dragEndIndex + 1
            /\ last' = Did("unpinTab", "unpinned", getTabKeyFromTab(tab))
       ELSE /\ UNCHANGED <<tabs, dragEndIndex>>
            /\ last' = Did("unpinTab", "missing", getTabKeyFromTab(tab))
    /\ UNCHANGED <<cachedTabs, maxCount, currentRoute, routeAffix, pending>>

\* this.tabs after setAffixTabs(routes): each record's meta.affixTab is set
\* (affix collects them), then addTab(routeToTab(record)).
RECURSIVE setAffixTabsTabs(_, _, _, _)
setAffixTabsTabs(ts, routes, affix, mc) ==
    IF routes = <<>> THEN ts
    ELSE LET marked == affix \cup {Head(routes)}
         IN setAffixTabsTabs(addTabTabs(ts, routeToTab(Head(routes), marked), mc),
                             Tail(routes), marked, mc)

setAffixTabs(routes) ==
    /\ Idle
    /\ routeAffix' = routeAffix \cup {routes[i] : i \in DOMAIN routes}
    /\ tabs' = setAffixTabsTabs(tabs, routes, routeAffix, maxCount)
    /\ cachedTabs' = cacheMap(tabs')
    /\ last' = Did("setAffixTabs", "", "")
    /\ UNCHANGED <<dragEndIndex, maxCount, currentRoute, pending>>

\* setTabTitle(tab, title): the stored tab's meta.newTabTitle, then the cache.
setTabTitle(tab, title) ==
    LET index == indexOfTab(tabs, tab)
    IN /\ Idle
       /\ index # 0
       /\ tabs' = [tabs EXCEPT ![index].meta.newTabTitle = {title}]
       /\ cachedTabs' = cacheMap(tabs')
       /\ last' = Did("setTabTitle", "", getTabKeyFromTab(tab))
       /\ UNCHANGED <<dragEndIndex, maxCount, currentRoute, routeAffix, pending>>

\* updateCacheTabs(), called on its own.
updateCacheTabs ==
    /\ Idle
    /\ cachedTabs' = cacheMap(tabs)
    /\ last' = Did("updateCacheTabs", "", "")
    /\ UNCHANGED <<tabs, dragEndIndex, maxCount, currentRoute, routeAffix, pending>>

\* The caller has seen the call return and goes on.
Continue ==
    /\ pending = NoNav
    /\ last # Ready
    /\ last' = Ready
    /\ UNCHANGED <<tabs, cachedTabs, dragEndIndex, maxCount, currentRoute, routeAffix,
                   pending>>

\* A store action is called only when no call is in progress (Idle, which
\* each action states too); it is stated in front of the choice of the
\* argument so that no argument is drawn in the other states.  The actions on
\* the tab list touch neither the refresh cycle nor the persisted copy, which
\* have their own specifications below.
Next ==
    \/ Idle /\ UNCHANGED besideTabs /\ \E id \in RouteIds : addTab(id)
    \/ Idle /\ UNCHANGED besideTabs /\ \E tab \in ArgTabs : closeTab(tab)
    \/ routerReplaceDone /\ UNCHANGED besideTabs
    \/ UNCHANGED besideTabs /\ \E id \in VisibleIds : navigate(id)
    \/ Idle /\ UNCHANGED besideTabs /\ \E tab \in StoredOrAbsent : closeLeftTabs(tab)
    \/ Idle /\ UNCHANGED besideTabs /\ \E tab \in StoredOrAbsent : closeRightTabs(tab)
    \/ Idle /\ UNCHANGED besideTabs /\ \E tab \in StoredOrAbsent : closeOtherTabs(tab)
    \/ closeAllTabs /\ UNCHANGED besideTabs
    \/ Idle /\ UNCHANGED besideTabs
            /\ \E oldIndex \in 1..4, newIndex \in 1..3 : sortTabs(oldIndex, newIndex)
    \/ Idle /\ UNCHANGED besideTabs /\ \E tab \in StoredOrAbsent : pinTab(tab)
    \/ Idle /\ UNCHANGED besideTabs /\ \E tab \in StoredOrAbsent : unpinTab(tab)
    \/ UNCHANGED besideTabs /\ \E routes \in AffixRouteLists : setAffixTabs(routes)
    \/ UNCHANGED besideTabs /\ \E id \in TitledIds, title \in Titles :
            setTabTitle(Location(id, routeAffix), title)
    \/ updateCacheTabs /\ UNCHANGED besideTabs
    \/ Continue /\ UNCHANGED besideTabs

Spec == Init /\ [][Next]_vars

---------------------------------------------------------------------------
(* getTabKey on its own: the targets it is called with, and the calls.     *)

\* A pageKey as the query holds it: one string, or the array of a repeated
\* parameter.
ScalarKey(s) == [array |-> FALSE, items |-> <<s>>]
ArrayKey(ss) == [array |-> TRUE, items |-> ss]

PageKeys ==
    { {}, {ScalarKey("")}, {ScalarKey("X")}, {ScalarKey("a%20b")},
      {ScalarKey("100%")}, {ArrayKey(<<>>)}, {ArrayKey(<<"X", "Y">>)},
      {ArrayKey(<<"", "Y">>)} }

KeyPaths == {"/detail/1", "/caf%C3%A9"}

KeyFullPaths ==
    { {}, {"/detail/1?pageKey="}, {"/detail/3?tag=a%20b"}, {"/s?q=%E4%BD%A0"},
      {"/s?q=%E4%BD"}, {"/s?q=%zz"} }

\* The targets: every combination of a path, a fullPath or none, a pageKey
\* or none and meta.fullPathKey missing, true or false; and the targets that
\* have no query at all.
KeyTargets ==
    { [Location("d1", {}) EXCEPT !.path = p, !.fullPath = f,
                                 !.query = {[pageKey |-> k]},
                                 !.meta.fullPathKey = fk] :
        p \in KeyPaths, f \in KeyFullPaths, k \in PageKeys,
        fk \in {{}, {TRUE}, {FALSE}} }
    \cup
    { [Location("d1", {}) EXCEPT !.path = p, !.fullPath = f, !.query = {},
                                 !.meta.fullPathKey = fk] :
        p \in KeyPaths, f \in KeyFullPaths, fk \in {{}, {TRUE}, {FALSE}} }

KeyInit ==
    /\ tabs = <<>>
    /\ cachedTabs = {}
    /\ dragEndIndex = 0
    /\ maxCount = 0
    /\ currentRoute = "home"
    /\ routeAffix = {}
    /\ pending = NoNav
    /\ last = Ready
    /\ excludeCachedTabs = {}
    /\ renderRouteView = TRUE
    /\ progress = FALSE
    /\ settling = <<>>
    /\ storage = <<>>
    /\ keyTarget \in KeyTargets

\* getTabKey(keyTarget) is called and returns.
getTabKeyCalled ==
    /\ last = Ready
    /\ last' = Did("getTabKey", "first", getTabKey(keyTarget))
    /\ UNCHANGED <<tabs, cachedTabs, dragEndIndex, maxCount, currentRoute, routeAffix,
                   pending, refreshVars, storage, keyTarget>>

\* getTabKey is called with the same target once more.
getTabKeyCalledAgain ==
    /\ last.op = "getTabKey"
    /\ last.how = "first"
    /\ last' = Did("getTabKey", "again", getTabKey(keyTarget))
    /\ UNCHANGED <<tabs, cachedTabs, dragEndIndex, maxCount, currentRoute, routeAffix,
                   pending, refreshVars, storage, keyTarget>>

KeyNext == getTabKeyCalled \/ getTabKeyCalledAgain

KeySpec == KeyInit /\ [][KeyNext]_vars

---------------------------------------------------------------------------
(* The refresh cycle.  A call of refresh or refreshByName is asynchronous:  *)
(* it returns to the event loop at its await, and further calls may be made *)
(* before its timer fires.  All timers run 200 ms, so they fire in the      *)
(* order in which the calls were made.                                      *)

\* The names refresh and refreshByName are called with as strings.
RefreshNames == {"Home", "Detail"}

\* The calls that wait for their timer.
Settling == {settling[i] : i \in DOMAIN settling}

\* The number a new call is told from the others by.
freeId == CHOOSE i \in 1..(Len(settling) + 1) :
              /\ \A c \in Settling : c.id # i
              /\ \A j \in 1..(i - 1) : \E c \in Settling : c.id = j

\* settling after a further call: it waits behind the others.  `alone`
\* records that no other call has been waiting at any time since the call
\* was made.
called(op, name, router) ==
    Append([i \in DOMAIN settling |-> [settling[i] EXCEPT !.alone = FALSE]],
           [id |-> freeId, op |-> op, name |-> name, router |-> router,
            alone |-> settling = <<>>])

tabListVars == <<tabs, cachedTabs, dragEndIndex, maxCount, currentRoute, routeAffix,
                 pending>>

\* refreshByName that suppresses the view and starts the indicator as
\* refresh(router) does.
refreshByNameAsRouter(name) ==
    /\ Len(settling) < MaxSettling
    /\ excludeCachedTabs' = excludeCachedTabs \cup {name}
    /\ renderRouteView' = FALSE
    /\ progress' = TRUE
    /\ settling' = called("refreshByName", name, FALSE)
    /\ last' = Did("refreshByName", "waiting", name)
    /\ UNCHANGED <<tabListVars, storage, keyTarget>>

\* refreshByName(name), up to its await: the name is excluded.
refreshByName(name) ==
    /\ Len(settling) < MaxSettling
    /\ excludeCachedTabs' = excludeCachedTabs \cup {name}
    /\ settling' = called("refreshByName", name, FALSE)
    /\ last' = Did("refreshByName", "waiting", name)
    /\ UNCHANGED <<tabListVars, renderRouteView, progress, storage, keyTarget>>

\* refresh(name) with a string: it awaits refreshByName(name).
refreshString(name) ==
    /\ Len(settling) < MaxSettling
    /\ excludeCachedTabs' = excludeCachedTabs \cup {name}
    /\ settling' = called("refresh", name, FALSE)
    /\ last' = Did("refresh", "waiting", name)
    /\ UNCHANGED <<tabListVars, renderRouteView, progress, storage, keyTarget>>

\* refresh(router) that reloads the route through the router.
refreshByReplace ==
    LET name == currentLocation.name
    IN /\ Len(settling) < MaxSettling
       /\ excludeCachedTabs' = excludeCachedTabs \cup {name}
       /\ renderRouteView' = FALSE
       /\ progress' = TRUE
       /\ settling' = called("refresh", name, TRUE)
       /\ last' = Did("refresh", "waiting", name)
       /\ pending' = [op |-> "refresh", to |-> currentRoute]
       /\ UNCHANGED <<tabs, cachedTabs, dragEndIndex, maxCount, currentRoute,
                      routeAffix, storage, keyTarget>>

\* refresh(router), up to its await: the current route's name is excluded,
\* the view is not rendered and the progress bar is started.
refresh ==
    LET name == currentLocation.name
    IN /\ Len(settling) < MaxSettling
       /\ excludeCachedTabs' = excludeCachedTabs \cup {name}
       /\ renderRouteView' = FALSE
       /\ progress' = TRUE
       /\ settling' = called("refresh", name, TRUE)
       /\ last' = Did("refresh", "waiting", name)
       /\ UNCHANGED <<tabListVars, storage, keyTarget>>

\* The timer that leaves the name excluded.
settledKeepsName ==
    /\ settling # <<>>
    /\ LET call == Head(settling)
       IN /\ excludeCachedTabs' = excludeCachedTabs
          /\ renderRouteView' = IF call.router THEN TRUE ELSE renderRouteView
          /\ progress' = IF call.router THEN FALSE ELSE progress
          /\ settling' = Tail(settling)
          /\ last' = Did(call.op, "settled", call.name)
    /\ UNCHANGED <<tabListVars, storage, keyTarget>>

\* The timer that does not render the view again.
settledKeepsView ==
    /\ settling # <<>>
    /\ LET call == Head(settling)
       IN /\ excludeCachedTabs' = excludeCachedTabs \ {call.name}
          /\ renderRouteView' = renderRouteView
          /\ progress' = IF call.router THEN FALSE ELSE progress
          /\ settling' = Tail(settling)
          /\ last' = Did(call.op, "settled", call.name)
    /\ UNCHANGED <<tabListVars, storage, keyTarget>>

\* The timer of the oldest waiting call fires and the call runs to its end:
\* the name is included again; refresh(router) also renders the view again
\* and stops the progress bar.
settled ==
    /\ settling # <<>>
    /\ LET call == Head(settling)
       IN /\ excludeCachedTabs' = excludeCachedTabs \ {call.name}
          /\ renderRouteView' = IF call.router THEN TRUE ELSE renderRouteView
          /\ progress' = IF call.router THEN FALSE ELSE progress
          /\ settling' = Tail(settling)
          /\ last' = Did(call.op, "settled", call.name)
    /\ UNCHANGED <<tabListVars, storage, keyTarget>>

RefreshInit ==
    /\ tabs = <<>>
    /\ cachedTabs = {}
    /\ dragEndIndex = 0
    /\ maxCount = 0
    /\ currentRoute \in {"home", "d1"}
    /\ routeAffix = {}
    /\ pending = NoNav
    /\ last = Ready
    /\ excludeCachedTabs = {}
    /\ renderRouteView = TRUE
    /\ progress = FALSE
    /\ settling = <<>>
    /\ storage = <<>>
    /\ keyTarget = NoTarget

RefreshNext ==
    \/ refresh
    \/ \E name \in RefreshNames : refreshString(name)
    \/ \E name \in RefreshNames : refreshByName(name)
    \/ settled
    \/ UNCHANGED besideTabs /\ \E id \in VisibleIds : navigate(id)
    \/ Continue /\ UNCHANGED besideTabs

RefreshSpec == RefreshInit /\ [][RefreshNext]_vars

\* A timer that has been set fires: the event loop runs it once its 200 ms
\* are over.
FairRefreshSpec == RefreshSpec /\ WF_vars(settled)

---------------------------------------------------------------------------
(* Persistence.  The store is set up with persist: [{ pick: ['tabs'],      *)
(* storage: sessionStorage }]: the plugin writes the picked state as JSON   *)
(* whenever the store has changed, and puts it back into the state when the *)
(* store is created anew after a reload of the page.                        *)

\* JSON.parse(JSON.stringify(tab)): a property whose value is undefined is
\* left out.
jsonOf(tab) ==
    [tab EXCEPT !.meta.newTabTitle = IF @ = {"undefined"} THEN {} ELSE @]

\* What is written for the list ts: pick ['tabs'].
serialise(ts) == [i \in DOMAIN ts |-> jsonOf(ts[i])]

\* The plugin has written the new state.
persisted == storage' = serialise(tabs')

\* The page is reloaded: the store is created anew with state(), and the
\* plugin restores the picked `tabs` from the storage.  Timers and awaited
\* navigations end with the page; the location and the preferences stay.
reload ==
    /\ tabs' = storage
    /\ cachedTabs' = {}
    /\ dragEndIndex' = 0
    /\ excludeCachedTabs' = {}
    /\ renderRouteView' = TRUE
    /\ progress' = FALSE
    /\ settling' = <<>>
    /\ routeAffix' = {}
    /\ pending' = NoNav
    /\ last' = Did("reload", "", "")
    /\ UNCHANGED <<maxCount, currentRoute, storage, keyTarget>>

\* The locations the store is given tabs for here.  Refresh calls do not
\* overlap here: one is made when none is waiting.
PersistIds == {"home", "d1", "d2", "login"}

PersistNext ==
    \/ Idle /\ UNCHANGED <<refreshVars, keyTarget>>
            /\ (\E id \in PersistIds : addTab(id))
            /\ persisted
    \/ UNCHANGED <<refreshVars, keyTarget>>
            /\ (\E id \in TitledIds, title \in Titles :
                   setTabTitle(Location(id, routeAffix), title))
            /\ persisted
    \/ Idle /\ settling = <<>> /\ \E name \in RefreshNames : refreshByName(name)
    \/ settled
    \/ reload
    \/ UNCHANGED besideTabs /\ \E id \in {"home", "d1", "login"} : navigate(id)
    \/ Continue /\ UNCHANGED besideTabs

PersistSpec == Init /\ [][PersistNext]_vars

---------------------------------------------------------------------------
(* Navigation that fails.  router.replace may reject; closeTab and         *)
(* closeAllTabs await it through _goToTab without a try/catch.              *)

\* router.replace that is called again after it has rejected.
routerReplaceRetried ==
    /\ pending # NoNav
    /\ pending' = pending
    /\ last' = Did(pending.op, "rejected", "")
    /\ UNCHANGED <<tabs, cachedTabs, dragEndIndex, maxCount, currentRoute, routeAffix>>

\* router.replace rejects: the location stays, the await throws and the
\* operation ends with that error; what it had still to do (updateCacheTabs
\* in closeAllTabs) is not done.
routerReplaceFailed ==
    /\ pending # NoNav
    /\ pending' = NoNav
    /\ last' = Did(pending.op, "rejected", "")
    /\ UNCHANGED <<tabs, cachedTabs, dragEndIndex, maxCount, currentRoute, routeAffix>>

NavNext ==
    \/ Idle /\ UNCHANGED besideTabs /\ \E id \in RouteIds : addTab(id)
    \/ Idle /\ UNCHANGED besideTabs /\ \E tab \in ArgTabs : closeTab(tab)
    \/ closeAllTabs /\ UNCHANGED besideTabs
    \/ routerReplaceDone /\ UNCHANGED besideTabs
    \/ routerReplaceFailed /\ UNCHANGED besideTabs
    \/ UNCHANGED besideTabs /\ \E id \in VisibleIds : navigate(id)
    \/ Continue /\ UNCHANGED besideTabs

NavSpec == Init /\ [][NavNext]_vars

---------------------------------------------------------------------------
(* Tab titles: setTabTitle and resetTabTitle on the tabs addTab has stored. *)

\* resetTabTitle(tab): nothing when the tab passed in carries a custom title
\* itself; else the stored tab's meta.newTabTitle is set to undefined and
\* the cache is updated.
resetTabTitle(tab) ==
    LET index == indexOfTab(tabs, tab)
        key == getTabKeyFromTab(tab)
    IN /\ Idle
       /\ IF tab.meta.newTabTitle \notin {{}, {"undefined"}, {""}}
          THEN /\ UNCHANGED <<tabs, cachedTabs>>
               /\ last' = Did("resetTabTitle", "titled", key)
          ELSE IF index # 0
          THEN /\ tabs' = [tabs EXCEPT ![index].meta.newTabTitle = {"undefined"}]
               /\ cachedTabs' = cacheMap(tabs')
               /\ last' = Did("resetTabTitle", "reset", key)
          ELSE /\ UNCHANGED <<tabs, cachedTabs>>
               /\ last' = Did("resetTabTitle", "missing", key)
       /\ UNCHANGED <<dragEndIndex, maxCount, currentRoute, routeAffix, pending>>

\* The locations tabs are opened for here, and the titles given to them.
TitleIds == {"home", "d1", "d2"}
TitleTexts == {"Custom", "Other"}

\* The tabs setTabTitle and resetTabTitle are called with: a record of the
\* store, as the tab strip hands it over, or the location of a route.
TitleArgs == StoredTabs \cup {Location(id, routeAffix) : id \in TitleIds}

TitleNext ==
    \/ Idle /\ UNCHANGED besideTabs /\ \E id \in TitleIds : addTab(id)
    \/ Idle /\ UNCHANGED besideTabs
            /\ \E tab \in TitleArgs, title \in TitleTexts : setTabTitle(tab, title)
    \/ Idle /\ UNCHANGED besideTabs /\ \E tab \in TitleArgs : resetTabTitle(tab)
    \/ Continue /\ UNCHANGED besideTabs

TitleSpec == Init /\ [][TitleNext]_vars

\* pinTab and unpinTab take a TabDefinition from their caller: a record as
\* getTabs returns it, or one built from a route location.
PinNext ==
    \/ Idle /\ UNCHANGED besideTabs /\ \E id \in TitleIds : addTab(id)
    \/ Idle /\ UNCHANGED besideTabs
            /\ \E tab \in StoredTabs, title \in TitleTexts : setTabTitle(tab, title)
    \/ Idle /\ UNCHANGED besideTabs /\ \E tab \in TitleArgs : pinTab(tab)
    \/ Idle /\ UNCHANGED besideTabs /\ \E tab \in TitleArgs : unpinTab(tab)
    \/ Continue /\ UNCHANGED besideTabs

PinSpec == Init /\ [][PinNext]_vars

---------------------------------------------------------------------------
\* closeTabByKey(key, router): the key is decoded, the first record with the
\* decoded key is looked up and handed to closeTab.  decodeURIComponent is
\* called without a try: its URIError ends the call.
closeTabByKey(key) ==
    LET originKey == decodeURIComponent(key)
        index == firstIndex({i \in DOMAIN tabs :
                                {getTabKeyFromTab(tabs[i])} = originKey})
    IN IF originKey = {}
       THEN /\ Idle
            /\ last' = Did("closeTabByKey", "URIError", key)
            /\ UNCHANGED <<tabs, cachedTabs, dragEndIndex, maxCount, currentRoute,
                           routeAffix, pending>>
       ELSE IF index = 0
       THEN /\ Idle
            /\ last' = Did("closeTabByKey", "missing", key)
            /\ UNCHANGED <<tabs, cachedTabs, dragEndIndex, maxCount, currentRoute,
                           routeAffix, pending>>
       ELSE closeTab(tabs[index])

\* The routes opened with a pageKey in their query: one that does not
\* decode, so that the raw text is the key; one that decodes; one whose
\* decoded key still holds an escape.
ByKeyPageKeys == {"100%", "a%20b", "a%2520b"}

PagedLocation(id, pageKey) ==
    [Location(id, routeAffix) EXCEPT !.query = {[pageKey |-> {ScalarKey(pageKey)}]}]

ByKeyIds == {"home", "d1", "d3"}

\* The keys closeTabByKey is called with: the key of every stored record,
\* and keys of no record.
ByKeyArgs ==
    {getTabKeyFromTab(tabs[i]) : i \in DOMAIN tabs} \cup {"/nowhere", "/s?q=%zz"}

ByKeyNext ==
    \/ Idle /\ UNCHANGED besideTabs /\ \E id \in ByKeyIds : addTab(id)
    \/ Idle /\ UNCHANGED besideTabs
            /\ \E pageKey \in ByKeyPageKeys : addTabRoute(PagedLocation("d2", pageKey))
    \/ UNCHANGED besideTabs /\ \E key \in ByKeyArgs : closeTabByKey(key)
    \/ routerReplaceDone /\ UNCHANGED besideTabs
    \/ UNCHANGED besideTabs /\ \E id \in ByKeyIds : navigate(id)
    \/ Continue /\ UNCHANGED besideTabs

ByKeySpec == Init /\ [][ByKeyNext]_vars

---------------------------------------------------------------------------
\* The refresh cycle beside the operations on the list: tabs are opened and
\* closed, and the navigation of closeTab is awaited, while refreshes wait
\* for their timers.
FrameIds == {"home", "d1"}

\* The route name that is refreshed by name.
FrameNames == {"Detail"}

FrameNext ==
    \/ Idle /\ UNCHANGED besideTabs /\ \E id \in FrameIds : addTab(id)
    \/ Idle /\ UNCHANGED besideTabs /\ \E tab \in StoredTabs : closeTab(tab)
    \/ routerReplaceDone /\ UNCHANGED besideTabs
    \/ refresh
    \/ \E name \in FrameNames : refreshString(name)
    \/ \E name \in FrameNames : refreshByName(name)
    \/ settled
    \/ UNCHANGED besideTabs /\ \E id \in FrameIds : navigate(id)
    \/ Continue /\ UNCHANGED besideTabs

\* The list is not capped here.
FrameInit == Init /\ maxCount = 0

FrameSpec == FrameInit /\ [][FrameNext]_vars

---------------------------------------------------------------------------
(* Properties.                                                             *)

\* The keys of a tab list, and the position of a key in it (0 when absent).
keysOf(ts) == {getTabKeyFromTab(ts[i]) : i \in DOMAIN ts}

indexOfKey(ts, key) == firstIndex({i \in DOMAIN ts : getTabKeyFromTab(ts[i]) = key})

\* C1 (key uniqueness): in every state reached from the empty collection by
\* addTab, the closes, pinTab, unpinTab, sortTabs and setAffixTabs, no two
\* stored tabs have the same key.
C1_KeyUniqueness ==
    \A i, j \in DOMAIN tabs :
        getTabKeyFromTab(tabs[i]) = getTabKeyFromTab(tabs[j]) => i = j

\* C1 witness: addTab has just been called with a key that was stored already
\* while other tabs are open.
C1_Witness ==
    /\ last.op = "addTab"
    /\ last.how = "merge"
    /\ Len(tabs) = 3
    /\ \E i \in DOMAIN tabs : isAffixTab(tabs[i])

\* The calls that close tabs.
CloseOps == {"closeTab", "closeLeftTabs", "closeRightTabs", "closeOtherTabs",
             "closeAllTabs"}

\* Every tab that is pinned before the step is still stored, and pinned,
\* after it.
PinnedKept ==
    \A i \in DOMAIN tabs :
        isAffixTab(tabs[i]) =>
            \E j \in DOMAIN tabs' :
                /\ getTabKeyFromTab(tabs'[j]) = getTabKeyFromTab(tabs[i])
                /\ isAffixTab(tabs'[j])

\* C2 (pin immunity under close): no step of closeTab, closeLeftTabs,
\* closeRightTabs, closeOtherTabs or closeAllTabs removes a stored tab whose
\* meta.affixTab is true, whatever tab it is called with and whatever the
\* current route.
C2_PinImmunityClose == [][last'.op \in CloseOps => PinnedKept]_vars

\* C3 (pin immunity under eviction): no addTab removes a stored tab whose
\* meta.affixTab is true, whichever limit makes it evict.
C3_PinImmunityEviction == [][last'.op = "addTab" => PinnedKept]_vars

\* C4 (ordering): getTabs is a rearrangement of the stored tabs in which no
\* unpinned tab precedes a pinned one, the pinned tabs ascend by affixTabOrder
\* (missing = 0) with ties in storage order, and the unpinned tabs are in
\* storage order.
C4_OrderedView ==
    LET view == getTabs(tabs)
        at(k) == indexOfKey(tabs, getTabKeyFromTab(view[k]))
    IN /\ Len(view) = Len(tabs)
       /\ \A k \in DOMAIN view : at(k) # 0 /\ view[k] = tabs[at(k)]
       /\ \A k, l \in DOMAIN view :
            k < l =>
              /\ ~(~isAffixTab(view[k]) /\ isAffixTab(view[l]))
              /\ isAffixTab(view[k]) /\ isAffixTab(view[l]) =>
                    \/ orderOf(view[k]) < orderOf(view[l])
                    \/ orderOf(view[k]) = orderOf(view[l]) /\ at(k) < at(l)
              /\ ~isAffixTab(view[k]) /\ ~isAffixTab(view[l]) => at(k) < at(l)

\* C4 witness: after a pinTab the store holds an unpinned tab in front of a
\* pinned one and two pinned tabs whose storage order is not their
\* affixTabOrder order.
C4_Witness ==
    /\ last.op = "pinTab"
    /\ last.how = "pinned"
    /\ \E i, j \in DOMAIN tabs :
          i < j /\ ~isAffixTab(tabs[i]) /\ isAffixTab(tabs[j])
    /\ \E i, j \in DOMAIN tabs :
          /\ i < j /\ isAffixTab(tabs[i]) /\ isAffixTab(tabs[j])
          /\ orderOf(tabs[i]) > orderOf(tabs[j])

\* The target addTab is called with for the location id, and its key.
targetOf(id) == tabOf(Location(id, routeAffix))

targetKey(id) == getTabKeyFromTab(targetOf(id))

\* The step is the call addTab(Location(id)).
IsAddTab(id) == last'.op = "addTab" /\ last'.key = targetKey(id)

\* C5 (merge stickiness): when addTab is called with a key that is stored,
\* the tab of that key keeps the stored meta.affixTab and meta.newTabTitle
\* wherever the stored meta had the property, whatever the target's meta
\* holds or omits.
C5_MergeStickiness ==
    [][\A id \in RouteIds :
         IsAddTab(id) /\ targetKey(id) \in keysOf(tabs) =>
            LET old == tabs[indexOfKey(tabs, targetKey(id))]
                j == indexOfKey(tabs', targetKey(id))
            IN /\ j # 0
               /\ old.meta.affixTab # {} =>
                     tabs'[j].meta.affixTab = old.meta.affixTab
               /\ old.meta.newTabTitle # {} =>
                     tabs'[j].meta.newTabTitle = old.meta.newTabTitle]_vars

\* C5 witness: addTab has been called again for a tab that was pinned by
\* pinTab and titled by setTabTitle, with a location whose meta has neither;
\* the tab is still pinned and still has the title.
C5_Witness ==
    /\ last.op = "addTab"
    /\ last.how = "merge"
    /\ last.key = targetKey("d1")
    /\ targetOf("d1").meta.affixTab = {}
    /\ targetOf("d1").meta.newTabTitle = {"undefined"}
    /\ \E i \in DOMAIN tabs :
          /\ getTabKeyFromTab(tabs[i]) = last.key
          /\ tabs[i].meta.affixTab = {TRUE}
          /\ tabs[i].meta.newTabTitle = {"Custom"}

\* C6 (merge in place): addTab with a key that is stored returns normally on
\* its merge branch, keeps the length of the list, leaves every other tab as
\* it was and leaves the tab of that key at its position.
C6_MergeInPlace ==
    [][\A id \in RouteIds :
         IsAddTab(id) /\ targetKey(id) \in keysOf(tabs) =>
            /\ last'.how = "merge"
            /\ Len(tabs') = Len(tabs)
            /\ \A j \in DOMAIN tabs :
                  IF getTabKeyFromTab(tabs[j]) = targetKey(id)
                  THEN getTabKeyFromTab(tabs'[j]) = targetKey(id)
                  ELSE tabs'[j] = tabs[j]]_vars

\* C6 witness: a merge has changed the tab in the middle of three (the home
\* tab stored by setAffixTabs without matched records gets them from the
\* location).
C6_Witness ==
    /\ last.op = "addTab"
    /\ last.how = "merge"
    /\ Len(tabs) = 3
    /\ getTabKeyFromTab(tabs[2]) = last.key
    /\ last.key = targetKey("home")
    /\ tabs[2].matched # <<>>
    /\ tabs[2].meta.affixTab = {FALSE}

\* Every component name of the application.
AllNames ==
    UNION {{RouteName(id)} \cup {RouteMatched(id)[k].name : k \in DOMAIN RouteMatched(id)} :
            id \in RouteIds}

\* The cache set as the claim states it: the names n for which some stored
\* tab with keepAlive true is named n or has n at a matched position other
\* than the first.
expectedCache(ts) ==
    {n \in AllNames :
        \E i \in DOMAIN ts :
            /\ ts[i].meta.keepAlive = {TRUE}
            /\ \/ n = ts[i].name
               \/ \E k \in DOMAIN ts[i].matched : k > 1 /\ ts[i].matched[k].name = n}

TabChangingOps == {"addTab", "closeTab", "closeLeftTabs", "closeRightTabs",
                   "closeOtherTabs", "closeAllTabs", "pinTab", "unpinTab"}

\* C8 (cache consistency): whenever one of addTab, closeTab (of an active or
\* inactive tab), the bulk closes, pinTab and unpinTab has completed,
\* cachedTabs is the cache set of the current tab list.
C8_CacheConsistency ==
    (pending = NoNav /\ last.op \in TabChangingOps /\ last.how # "hidden") =>
        cachedTabs = cacheMap(tabs)

\* The positions of the tabs that are not pinned, and of those named as the
\* location id is.
unpinnedAt(ts) == {i \in DOMAIN ts : ~isAffixTab(ts[i])}

namedAs(ts, id) == {i \in DOMAIN ts : ts[i].name = RouteName(id)}

\* The per-route limit of location id, -1 when it has none.
nameCapOf(id) == Get(Location(id, routeAffix).meta.maxNumOfOpenTab, -1)

\* The per-route limit stops the insertion of id as it is.
NameCapTriggered(id) ==
    nameCapOf(id) > 0 /\ Cardinality(namedAs(tabs, id)) >= nameCapOf(id)

\* addTab(Location(id)) is the insertion of a key that is not stored.
IsInsertion(id) ==
    /\ IsAddTab(id)
    /\ isTabShown(targetOf(id))
    /\ targetKey(id) \notin keysOf(tabs)

\* C9 (global capacity eviction): with maxCount = N > 0, N tabs stored of
\* which one at least is unpinned, and the per-route limit not triggered, the
\* insertion of a new key takes out exactly the first unpinned tab in storage
\* order, puts the new tab at the end, and leaves N tabs.
C9_GlobalEviction ==
    [][\A id \in RouteIds :
         ( /\ IsInsertion(id)
           /\ maxCount > 0
           /\ Len(tabs) = maxCount
           /\ unpinnedAt(tabs) # {}
           /\ ~NameCapTriggered(id) ) =>
            /\ tabs' = Append(removeAt(tabs, firstIndex(unpinnedAt(tabs))), targetOf(id))
            /\ Len(tabs') = maxCount]_vars

\* C9 witness: the global limit has evicted the second of two tabs, the
\* first being pinned, and the list is at maxCount again.
C9_Witness ==
    /\ last.op = "addTab"
    /\ last.how = "evictGlobal"
    /\ maxCount = 2
    /\ Len(tabs) = maxCount
    /\ isAffixTab(tabs[1])
    /\ getTabKeyFromTab(tabs[2]) = last.key

\* C10 (per-route limit and sequencing): the insertion of a new key whose
\* meta.maxNumOfOpenTab = M > 0 while M or more stored tabs have its name
\* takes out exactly the first stored tab of that name and nothing else, also
\* when the global limit is reached; and no addTab removes more than one tab.
C10_NameCapFirst ==
    [][/\ \A id \in RouteIds :
            IsInsertion(id) /\ NameCapTriggered(id) =>
               tabs' = Append(removeAt(tabs, firstIndex(namedAs(tabs, id))), targetOf(id))
       /\ last'.op = "addTab" => Cardinality(keysOf(tabs) \ keysOf(tabs')) <= 1]_vars

\* C10 witness: the per-route limit has evicted a tab while the global limit
\* was reached too, and the first unpinned tab, which the global limit would
\* have taken, is still there.
C10_Witness ==
    /\ last.op = "addTab"
    /\ last.how = "evictName"
    /\ maxCount > 0
    /\ Len(tabs) > maxCount
    /\ isAffixTab(tabs[1])
    /\ ~isAffixTab(tabs[2])
    /\ tabs[2].name = "Detail"
    /\ getTabKeyFromTab(tabs[Len(tabs)]) = last.key

\* The key of the router's current location, and a list without the tab of
\* a key.
currentKey == getTabKey(currentLocation)

withoutKey(ts, key) == SelectSeq(ts, LAMBDA item : getTabKeyFromTab(item) # key)

\* The tab passed in is not pinned and neither is the stored tab of its key.
UnpinnedStored(tab) ==
    /\ ~isAffixTab(tab)
    /\ \E i \in DOMAIN tabs :
          /\ getTabKeyFromTab(tabs[i]) = getTabKeyFromTab(tab)
          /\ ~isAffixTab(tabs[i])

\* The tab of the ordered view behind the one of key, else the one before it.
afterElseBefore(view, key) ==
    LET k == firstIndex({i \in DOMAIN view : getTabKeyFromTab(view[i]) = key})
    IN IF k < Len(view) THEN view[k + 1] ELSE view[k - 1]

\* C11 (close and navigate): closeTab on the unpinned tab of the current
\* route, with two tabs or more in the ordered view, removes that tab and
\* awaits router.replace to the tab behind it in the ordered view, to the one
\* before it when there is none behind; when the navigation resolves the
\* location is the one awaited.
C11_CloseAndNavigate ==
    [][/\ last'.op = "closeTab" => \A tab \in ArgTabs :
            ( /\ closeTab(tab)
              /\ UnpinnedStored(tab)
              /\ getTabKeyFromTab(tab) = currentKey
              /\ Len(getTabs(tabs)) >= 2 ) =>
                /\ tabs' = withoutKey(tabs, currentKey)
                /\ Len(tabs') = Len(tabs) - 1
                /\ pending' # NoNav
                /\ getTabKey(Location(pending'.to, routeAffix)) =
                      getTabKeyFromTab(afterElseBefore(getTabs(tabs), currentKey))
                /\ currentRoute' = currentRoute
       /\ (pending # NoNav /\ pending.op = "closeTab" /\ pending' = NoNav) =>
                /\ currentRoute' = pending.to
                /\ tabs' = tabs]_vars

\* C11 witness: the active tab has been closed, its key is gone, two tabs
\* are left and the navigation to the second of them is awaited; the first
\* was in front of the closed one, so the tab behind was preferred or the
\* closed tab was the last.
C11_Witness ==
    /\ last.op = "closeTab"
    /\ last.how = "active"
    /\ last.key \notin keysOf(tabs)
    /\ Len(tabs) = 2
    /\ pending # NoNav
    /\ getTabKey(Location(pending.to, routeAffix)) = getTabKeyFromTab(getTabs(tabs)[2])

\* C12 (sole-tab close): closeTab on the tab of the current route when it is
\* the only stored tab leaves tabs, cachedTabs and the location as they are,
\* awaits no navigation, and returns on the branch that logs the diagnostic.
C12_SoleTabClose ==
    [][last'.op = "closeTab" => \A tab \in ArgTabs :
            ( /\ closeTab(tab)
              /\ getTabKeyFromTab(tab) = currentKey
              /\ keysOf(tabs) = {currentKey} ) =>
                /\ tabs' = tabs
                /\ cachedTabs' = cachedTabs
                /\ currentRoute' = currentRoute
                /\ pending' = NoNav
                /\ last'.how = "sole"]_vars

\* C12 witness: closeTab has returned on its diagnostic branch for the one
\* tab stored, which is the current route's and is kept alive.
C12_Witness ==
    /\ last.op = "closeTab"
    /\ last.how = "sole"
    /\ Len(tabs) = 1
    /\ getTabKeyFromTab(tabs[1]) = last.key
    /\ currentKey = last.key
    /\ cachedTabs = {"Layout", "Detail"}
    /\ pending = NoNav

\* C13 (close of an inactive tab): closeTab on an unpinned stored tab that is
\* not the current route's removes exactly that tab, leaves the others in
\* their order, sets cachedTabs to the cache set of the new list and awaits
\* no navigation; the location is unchanged.
C13_CloseInactive ==
    [][last'.op = "closeTab" => \A tab \in ArgTabs :
            ( /\ closeTab(tab)
              /\ UnpinnedStored(tab)
              /\ getTabKeyFromTab(tab) # currentKey ) =>
                /\ tabs' = withoutKey(tabs, getTabKeyFromTab(tab))
                /\ Len(tabs') = Len(tabs) - 1
                /\ cachedTabs' = expectedCache(tabs')
                /\ pending' = NoNav
                /\ currentRoute' = currentRoute]_vars

\* C13 witness: the inactive /detail/1 tab has been closed, the Home tab of
\* the current route is what is left, and the cache set has lost the names
\* the closed tab had put there.
C13_Witness ==
    /\ last.op = "closeTab"
    /\ last.how = "inactive"
    /\ last.key = targetKey("d1")
    /\ last.key \notin keysOf(tabs)
    /\ keysOf(tabs) = {targetKey("home")}
    /\ currentRoute = "home"
    /\ cachedTabs = {}
    /\ pending = NoNav

\* The tab passed in is pinned and so is the stored tab of its key.
PinnedStored(tab) ==
    /\ isAffixTab(tab)
    /\ \E i \in DOMAIN tabs :
          /\ getTabKeyFromTab(tabs[i]) = getTabKeyFromTab(tab)
          /\ isAffixTab(tabs[i])

\* C14 (close of a pinned tab): closeTab on a pinned tab changes nothing: the
\* tab list is unchanged and no navigation is awaited, the location staying
\* where it is, whether the pinned tab is the current route's or not.
C14_PinnedCloseNoOp ==
    [][last'.op = "closeTab" => \A tab \in ArgTabs :
            (closeTab(tab) /\ PinnedStored(tab)) =>
                /\ tabs' = tabs
                /\ pending' = NoNav
                /\ currentRoute' = currentRoute]_vars

\* The bulk closes by side.
SideOps == {"closeLeftTabs", "closeRightTabs", "closeOtherTabs"}

\* The storage positions a bulk close by side is about, for the tab of key:
\* strictly left of it, strictly right of it, or every other one.
regionOf(op, ts, key) ==
    LET idx == indexOfKey(ts, key)
    IN IF op = "closeLeftTabs" THEN {i \in DOMAIN ts : i < idx}
       ELSE IF op = "closeRightTabs"
            THEN (IF idx = 0 THEN {} ELSE {i \in DOMAIN ts : i > idx})
       ELSE {i \in DOMAIN ts : getTabKeyFromTab(ts[i]) # key}

C16_CloseAllKeepsOne ==
    [][/\ (last'.op = "closeAllTabs" /\ last'.how # "navigated") =>
            LET pinned == SelectSeq(tabs, LAMBDA item : item.meta.affixTab = {TRUE})
            IN /\ tabs' = IF pinned # <<>> THEN pinned
                          ELSE IF tabs = <<>> THEN <<>> ELSE <<tabs[1]>>
               /\ tabs # <<>> => tabs' # <<>>
       /\ (pending # NoNav /\ pending.op = "closeAllTabs" /\ pending' = NoNav) =>
            tabs' = tabs]_vars

\* C16 witness: closeAllTabs has cut the list to its first tab, the unpinned
\* Home tab; the cache set, not yet updated, still has the names of the
\* Detail tabs that were closed.
C16_Witness ==
    /\ last.op = "closeAllTabs"
    /\ last.how = "cut"
    /\ Len(tabs) = 1
    /\ tabs[1].name = "Home"
    /\ ~isAffixTab(tabs[1])
    /\ cachedTabs = {"Layout", "Detail"}

\* C17 (navigation after a bulk close): when closeLeftTabs, closeRightTabs,
\* closeOtherTabs or closeAllTabs removes the tab of the current route and
\* leaves a tab, it navigates to the first tab of the resulting ordered view.
C17_PostBulkNavigation ==
    [][( /\ last'.op \in SideOps \cup {"closeAllTabs"}
         /\ last'.how # "navigated"
         /\ currentKey \in keysOf(tabs)
         /\ currentKey \notin keysOf(tabs')
         /\ tabs' # <<>> ) =>
            /\ pending' # NoNav
            /\ getTabKey(Location(pending'.to, routeAffix)) =
                  getTabKeyFromTab(getTabs(tabs')[1])]_vars

\* The storage positions of the pinned tabs.
pinnedAt(ts) == {i \in DOMAIN ts : ts[i].meta.affixTab = {TRUE}}

\* C18 (pinTab): pinTab(t) on a stored tab sets its meta.affixTab to true,
\* keeps the stored meta.title, and leaves it in the pinned sub-range: every
\* tab stored before it is pinned, and its storage index is its index among
\* the pinned tabs.
C18_PinPosition ==
    [][(last'.op = "pinTab" /\ last'.how = "pinned") =>
         LET i == indexOfKey(tabs, last'.key)
             j == indexOfKey(tabs', last'.key)
         IN /\ j # 0
            /\ tabs'[j].meta.affixTab = {TRUE}
            /\ tabs'[j].meta.title = tabs[i].meta.title
            /\ \A k \in 1..(j - 1) : k \in pinnedAt(tabs')
            /\ j = Cardinality({k \in pinnedAt(tabs') : k <= j})]_vars

\* C19 (unpinTab): unpinTab(t) on a stored pinned tab sets its meta.affixTab
\* to false, keeps meta.title, and leaves it stored right behind the last
\* pinned tab and first of the unpinned tabs of getTabs.
C19_UnpinPosition ==
    [][( /\ last'.op = "unpinTab"
         /\ last'.how = "unpinned"
         /\ indexOfKey(tabs, last'.key) \in pinnedAt(tabs) ) =>
         LET i == indexOfKey(tabs, last'.key)
             j == indexOfKey(tabs', last'.key)
             view == getTabs(tabs')
             n == Cardinality(pinnedAt(tabs'))
         IN /\ j # 0
            /\ tabs'[j].meta.affixTab = {FALSE}
            /\ tabs'[j].meta.title = tabs[i].meta.title
            /\ \A k \in pinnedAt(tabs') : k < j
            /\ (j = 1 \/ j - 1 \in pinnedAt(tabs'))
            /\ getTabKeyFromTab(view[n + 1]) = last'.key]_vars

\* C20 (sortTabs and the drag counter): sortTabs(oldIndex, newIndex) with a
\* tab at oldIndex takes it out and puts it in at newIndex (at the end when
\* newIndex is past it), so the list has the same tabs and the same length,
\* and adds exactly 1 to dragEndIndex; a pinTab or unpinTab of a stored tab
\* adds exactly 1 too; no step makes dragEndIndex smaller.
C20_SortAndDragCounter ==
    [][/\ last'.op = "sortTabs" =>
            \A oldIndex \in 1..4, newIndex \in 1..3 :
                (sortTabs(oldIndex, newIndex) /\ oldIndex \in DOMAIN tabs) =>
                    LET at == IF newIndex > Len(tabs) THEN Len(tabs) ELSE newIndex
                    IN /\ Len(tabs') = Len(tabs)
                       /\ {tabs'[k] : k \in DOMAIN tabs'} = StoredTabs
                       /\ tabs'[at] = tabs[oldIndex]
                       /\ removeAt(tabs', at) = removeAt(tabs, oldIndex)
                       /\ dragEndIndex' = dragEndIndex + 1
       /\ (last'.op = "sortTabs" /\ last'.how = "missing") =>
            (tabs' = tabs /\ dragEndIndex' = dragEndIndex)
       /\ (last'.op \in {"pinTab", "unpinTab"} /\ last'.how \in {"pinned", "unpinned"}) =>
            dragEndIndex' = dragEndIndex + 1
       /\ dragEndIndex' >= dragEndIndex]_vars

\* C20 witness: sortTabs has moved a tab in a list of three after an earlier
\* sortTabs, pinTab or unpinTab; the counter is at 2 and the tabs are not in
\* the order in which they were added.
C20_Witness ==
    /\ last.op = "sortTabs"
    /\ last.how = "moved"
    /\ dragEndIndex = 2
    /\ Len(tabs) = 3
    /\ tabs[1].name = "Detail"
    /\ tabs[2].name = "Home"
    /\ pinnedAt(tabs) = {}

---------------------------------------------------------------------------
(* Calls that find nothing to act on.                                      *)

\* What a call without effect leaves alone: the list, the cache set, the drag
\* counter and the router's location, with no navigation started.
withoutEffect ==
    /\ UNCHANGED <<tabs, cachedTabs, dragEndIndex, currentRoute>>
    /\ pending' = NoNav

\* C21: pinTab, unpinTab and closeTab called with a tab whose key no record of
\* the collection has, and sortTabs called with an oldIndex outside the list,
\* return without effect: tabs, cachedTabs, dragEndIndex and the router's
\* current location are all unchanged.
C21_SilentNoOps ==
    [][/\ (last'.op \in {"pinTab", "unpinTab"} /\ last'.key \notin keysOf(tabs))
            => withoutEffect
       /\ (last'.op = "closeTab" /\ pending = NoNav /\ last'.key \notin keysOf(tabs))
            => withoutEffect
       /\ last'.op = "sortTabs"
            => \A oldIndex \in 1..4, newIndex \in 1..3 :
                  (sortTabs(oldIndex, newIndex) /\ oldIndex \notin DOMAIN tabs)
                      => withoutEffect]_vars

\* The parts of C21 that the code keeps: pinTab and unpinTab of an unknown
\* key and sortTabs of an index outside the list change nothing.
C21_PinSortNoOps ==
    [][/\ (last'.op \in {"pinTab", "unpinTab"} /\ last'.key \notin keysOf(tabs))
            => withoutEffect
       /\ last'.op = "sortTabs"
            => \A oldIndex \in 1..4, newIndex \in 1..3 :
                  (sortTabs(oldIndex, newIndex) /\ oldIndex \notin DOMAIN tabs)
                      => withoutEffect]_vars

---------------------------------------------------------------------------
(* Hidden targets.                                                         *)

\* meta.hideInTab is true on the record itself or on one of its matched
\* ancestors.
hiddenInTab(tab) ==
    \/ tab.meta.hideInTab = {TRUE}
    \/ \E i \in DOMAIN tab.matched : tab.matched[i].meta.hideInTab = {TRUE}

\* C22: addTab of a target whose own meta.hideInTab, or that of any matched
\* ancestor, is true returns through the hidden branch and leaves tabs and
\* cachedTabs unchanged; so no record of the collection, and none of the
\* ordered view, ever has hideInTab true on itself or on an ancestor.
C22_HiddenNeverStored ==
    [][/\ last'.op = "addTab" =>
            \A id \in RouteIds :
                (IsAddTab(id) /\ hiddenInTab(targetOf(id))) =>
                    /\ tabs' = tabs
                    /\ cachedTabs' = cachedTabs
                    /\ last'.how = "hidden"
       /\ tabs' # tabs =>
            /\ \A i \in DOMAIN tabs' : ~hiddenInTab(tabs'[i])
            /\ \A i \in DOMAIN getTabs(tabs') : ~hiddenInTab(getTabs(tabs')[i])]_vars

\* C22 witness: addTab has been called with the location whose parent record
\* alone is hidden, while two tabs were stored and the cache set was not
\* empty; it has returned through the hidden branch.
C22_Witness ==
    /\ last = Did("addTab", "hidden", targetKey("secret"))
    /\ ~Truthy(targetOf("secret").meta.hideInTab)
    /\ Len(tabs) = 2
    /\ cachedTabs # {}

---------------------------------------------------------------------------
(* The key of a target.                                                    *)

\* The pageKey a target's query contains: the scalar, or the first element
\* of the array; {} when the query has none.
containedPageKey(t) ==
    LET given == IF t.query = {} THEN {} ELSE (CHOOSE q \in t.query : TRUE).pageKey
        v == CHOOSE held \in given : TRUE
    IN IF given = {} \/ v.items = <<>> THEN {} ELSE {v.items[1]}

\* path when meta.fullPathKey is false, else fullPath, and path where the
\* target has no fullPath.
pathKey(t) ==
    IF t.meta.fullPathKey = {FALSE} THEN t.path
    ELSE IF t.fullPath = {} THEN t.path
    ELSE CHOOSE f \in t.fullPath : TRUE

\* The raw key decoded, or as it is where it cannot be decoded.
decodedOrRaw(raw) ==
    IF decodeURIComponent(raw) = {} THEN raw
    ELSE CHOOSE d \in decodeURIComponent(raw) : TRUE

\* C23: getTabKey resolves a target whose query contains pageKey (the scalar,
\* or the first element of an array) to that value, whatever path, fullPath
\* and meta.fullPathKey are; a target without pageKey to the bare path if
\* meta.fullPathKey === false, else to fullPath, and to path only where
\* fullPath is absent; a second call with the same target gives the same key.
C23_KeyPrecedence ==
    last.op = "getTabKey" =>
        /\ containedPageKey(keyTarget) # {} =>
              \A k \in containedPageKey(keyTarget) : last.key = decodedOrRaw(k)
        /\ containedPageKey(keyTarget) = {} =>
              last.key = decodedOrRaw(pathKey(keyTarget))
        /\ last.how = "again" => last.key = getTabKey(keyTarget)

\* What C23 keeps of the code: the precedence as stated, for a pageKey that
\* is not the empty string; an empty pageKey counts as none.
C23_NonEmptyKeyPrecedence ==
    last.op = "getTabKey" =>
        /\ containedPageKey(keyTarget) \notin {{}, {""}} =>
              \A k \in containedPageKey(keyTarget) : last.key = decodedOrRaw(k)
        /\ containedPageKey(keyTarget) \in {{}, {""}} =>
              last.key = decodedOrRaw(pathKey(keyTarget))
        /\ last.how = "again" => last.key = getTabKey(keyTarget)

\* The raw key getTabKey chooses for a target.
rawKeyOf(t) ==
    IF containedPageKey(t) \in {{}, {""}} THEN pathKey(t)
    ELSE CHOOSE k \in containedPageKey(t) : TRUE

\* The raw keys of KeyTargets that hold a malformed escape: a "%" without two
\* hexadecimal digits behind it, or a UTF-8 sequence cut short.
MalformedKeys == {"100%", "/s?q=%zz", "/s?q=%E4%BD"}

\* What the well-formed raw keys of KeyTargets decode to.
DecodedKey(raw) ==
    CASE raw = "a%20b" -> "a b"
      [] raw = "/detail/3?tag=a%20b" -> "/detail/3?tag=a b"
      [] raw = "/caf%C3%A9" -> "/cafU+233"
      [] raw = "/s?q=%E4%BD%A0" -> "/s?q=U+20320"
      [] OTHER -> raw

\* C24: getTabKey returns the percent-decoded raw key, and the raw key as it
\* is when it holds a malformed escape sequence; it never raises an error.
C24_DecodeOrRaw ==
    last.op = "getTabKey" =>
        /\ last.key # "URIError"
        /\ rawKeyOf(keyTarget) \in MalformedKeys => last.key = rawKeyOf(keyTarget)
        /\ rawKeyOf(keyTarget) \notin MalformedKeys =>
              last.key = DecodedKey(rawKeyOf(keyTarget))

\* C24 witness: getTabKey has been called with a target whose fullPath ends
\* in a UTF-8 sequence cut short, and has returned that fullPath undecoded.
C24_Witness ==
    /\ last = Did("getTabKey", "first", "/s?q=%E4%BD")
    /\ keyTarget.fullPath = {"/s?q=%E4%BD"}
    /\ containedPageKey(keyTarget) = {}

---------------------------------------------------------------------------
(* The refresh cycle.                                                      *)

\* C25: a single refresh(router), for the current route's name n, first adds
\* n to excludeCachedTabs, sets renderRouteView to false and starts the
\* progress indicator; as long as the call waits for its 200 ms timer n stays
\* excluded and renderRouteView stays false; only when the timer has fired is
\* n removed, renderRouteView set to true and the indicator stopped.
C25_RefreshCycleOrder ==
    [][/\ refresh =>
            /\ currentLocation.name \in excludeCachedTabs'
            /\ ~renderRouteView'
            /\ progress'
       /\ \A call \in Settling' :
            (call.router /\ call.alone) =>
                /\ call.name \in excludeCachedTabs'
                /\ ~renderRouteView'
                /\ progress'
       /\ (settled /\ Head(settling).router /\ Head(settling).alone) =>
            /\ Head(settling).name \notin excludeCachedTabs'
            /\ renderRouteView'
            /\ ~progress'
            /\ settling' = <<>>]_vars

\* C25 witness: one refresh(router) waits for its timer, the only call made
\* since the cycle before it; the user has gone to a route of another name
\* meanwhile.  The name it was called for is excluded, the view is not
\* rendered and the progress bar runs.
C25_Witness ==
    /\ Len(settling) = 1
    /\ settling[1].router
    /\ settling[1].alone
    /\ settling[1].name = "Detail"
    /\ currentLocation.name = "Home"
    /\ excludeCachedTabs = {"Detail"}
    /\ ~renderRouteView
    /\ progress

\* C26: refresh called with a string, and refreshByName, run only the
\* exclude / settle / include cycle on excludeCachedTabs: neither the call
\* nor its timer changes renderRouteView or starts or stops the progress
\* indicator (nor touches the tab list).
C26_RefreshByNameFrame ==
    [][/\ \A name \in RefreshNames :
            (refreshString(name) \/ refreshByName(name)) =>
                /\ excludeCachedTabs' = excludeCachedTabs \cup {name}
                /\ UNCHANGED <<renderRouteView, progress, tabListVars>>
       /\ (settled /\ ~Head(settling).router) =>
            /\ excludeCachedTabs' = excludeCachedTabs \ {Head(settling).name}
            /\ UNCHANGED <<renderRouteView, progress, tabListVars>>]_vars

\* C26 witness: the timer of a refreshByName has fired while a refresh(router)
\* made after it still waits: the view stays unrendered and the progress bar
\* keeps running.
C26_Witness ==
    /\ last = Did("refreshByName", "settled", "Home")
    /\ Len(settling) = 1
    /\ settling[1].router
    /\ ~renderRouteView
    /\ progress
    /\ excludeCachedTabs = {"Detail"}

\* The call numbered id waits for its timer.
waiting(id) == \E call \in Settling : call.id = id

\* C27: however many refresh calls on one name overlap, by router or by name,
\* every call completes in the end, and a name is excluded only while a call
\* for it still waits: once all timers have fired the name is absent from
\* excludeCachedTabs.
C27_RefreshSettles ==
    /\ \A id \in 1..MaxSettling : waiting(id) ~> ~waiting(id)
    /\ [](\A name \in excludeCachedTabs : \E call \in Settling : call.name = name)
    /\ [](settling = <<>> => excludeCachedTabs = {})

\* C27 witness: of three overlapping calls for one name, by router, by string
\* and by name, the first has completed and has removed the name while the
\* other two still wait.
C27_Witness ==
    /\ Len(settling) = 2
    /\ settling[1].name = "Detail"
    /\ settling[2].name = "Detail"
    /\ settling[1].op # settling[2].op
    /\ last = Did("refresh", "settled", "Detail")
    /\ renderRouteView
    /\ "Detail" \notin excludeCachedTabs

---------------------------------------------------------------------------
(* Persistence.                                                            *)

\* C28: only the raw tab list is persisted; after a reload the tab list
\* equals the persisted one, while cachedTabs and excludeCachedTabs are not
\* restored but rebuilt on load: right after the load cachedTabs equals the
\* cache set computed from the restored tabs and excludeCachedTabs is empty.
C28_PersistenceBoundary ==
    [][last'.op = "reload" =>
          /\ tabs' = storage
          /\ cachedTabs' = expectedCache(tabs')
          /\ excludeCachedTabs' = {}]_vars

\* What C28 keeps of the code: the restored list is the persisted one and
\* both sets are empty right after the load, whatever they held before.
C28_SetsStartEmpty ==
    [][last'.op = "reload" =>
          /\ tabs' = storage
          /\ storage = serialise(tabs)
          /\ cachedTabs' = {}
          /\ excludeCachedTabs' = {}]_vars

---------------------------------------------------------------------------
(* Navigation awaited by the closes.                                       *)

\* C29: when router.replace fails during closeTab of the active tab or during
\* closeAllTabs, the failure ends that operation, which hands it to its
\* caller, and the store starts no further navigation: one replace call for
\* the operation, no retry; the location and the list stay as they were at
\* the failure and closeAllTabs does not get to updateCacheTabs.
C29_FailurePropagates ==
    [][/\ last'.how = "rejected" =>
            /\ pending # NoNav
            /\ last'.op = pending.op
            /\ last'.op \in {"closeTab", "closeAllTabs"}
            /\ pending' = NoNav
            /\ UNCHANGED <<tabs, cachedTabs, currentRoute>>
       /\ pending # NoNav => pending' \in {pending, NoNav}
       /\ last.how = "rejected" => pending' = NoNav]_vars

\* C29 witness: router.replace has failed in closeAllTabs; the list is cut
\* to one tab, the location is still one that has no tab any more and the
\* cache set is the one from before the call.
C29_Witness ==
    /\ last = Did("closeAllTabs", "rejected", "")
    /\ pending = NoNav
    /\ Len(tabs) = 1
    /\ currentKey \notin keysOf(tabs)
    /\ cachedTabs # expectedCache(tabs)

\* C30: on the success path of closeTab for the active tab (an unpinned
\* tab, passed in unpinned) the record is removed before the navigation
\* starts and the operation completes only when the navigation has resolved:
\* while the navigation is awaited the current location still designates the
\* closed tab although the collection no longer holds it.
C30_RemovedBeforeNavigation ==
    [][/\ (last'.op = "closeTab" /\ last'.how = "active") => \A tab \in ArgTabs :
            (getTabKeyFromTab(tab) = last'.key /\ UnpinnedStored(tab) /\ closeTab(tab)) =>
                /\ getTabKeyFromTab(tab) \in keysOf(tabs)
                /\ getTabKeyFromTab(tab) \notin keysOf(tabs')
                /\ pending = NoNav
                /\ pending' # NoNav
                /\ pending'.op = "closeTab"
                /\ UNCHANGED <<currentRoute, routeAffix>>
                /\ currentKey = getTabKeyFromTab(tab)
       /\ (last'.op = "closeTab" /\ last'.how = "navigated") =>
            /\ pending # NoNav
            /\ pending.op = "closeTab"
            /\ last.how = "active"
            /\ currentRoute' = pending.to
            /\ tabs' = tabs]_vars

\* C30 witness: closeTab of the active tab awaits its navigation; three tabs
\* were stored, two are left, none of them has the key of the current
\* location, and the location is not yet the one navigated to.
C30_Witness ==
    /\ pending # NoNav
    /\ pending.op = "closeTab"
    /\ last = Did("closeTab", "active", currentKey)
    /\ Len(tabs) = 2
    /\ currentKey \notin keysOf(tabs)
    /\ pending.to # currentRoute

---------------------------------------------------------------------------
(* Tab titles.                                                             *)

\* The stored tab of a key has a custom title.
titledAt(ts, key) ==
    \E i \in DOMAIN ts :
        /\ getTabKeyFromTab(ts[i]) = key
        /\ ts[i].meta.newTabTitle \notin {{}, {"undefined"}}

\* C31: resetTabTitle(tab) for a tab present in the collection clears that
\* tab's custom title: afterwards the stored record's meta.newTabTitle is
\* unset, whatever custom title setTabTitle had set before.
C31_ResetClearsTitle ==
    [][(last'.op = "resetTabTitle" /\ last'.key \in keysOf(tabs)) =>
          ~titledAt(tabs', last'.key)]_vars

\* What C31 keeps of the code: resetTabTitle clears the stored title when
\* the tab passed in carries no custom title itself, and then changes
\* nothing else of the list.
C31_ResetByUntitledTab ==
    [][last'.op = "resetTabTitle" => \A tab \in TitleArgs :
          ( /\ resetTabTitle(tab)
            /\ getTabKeyFromTab(tab) \in keysOf(tabs)
            /\ tab.meta.newTabTitle \in {{}, {"undefined"}} ) =>
              /\ ~titledAt(tabs', getTabKeyFromTab(tab))
              /\ keysOf(tabs') = keysOf(tabs)
              /\ Len(tabs') = Len(tabs)]_vars


\* C32: setAffixTabs(routes) pins every given route that is shown: after
\* the call a stored record with that route's key has meta.affixTab true,
\* whatever the list held before, a tab for that route included.
C32_AffixRoutesPinned ==
    [][last'.op = "setAffixTabs" =>
        \A routes \in AffixRouteLists :
            setAffixTabs(routes) =>
                \A i \in DOMAIN routes :
                    LET tab == routeToTab(routes[i], routeAffix')
                    IN isTabShown(tab) =>
                          \E j \in DOMAIN tabs' :
                              /\ getTabKeyFromTab(tabs'[j]) = getTabKeyFromTab(tab)
                              /\ tabs'[j].meta.affixTab = {TRUE}]_vars

\* The same statement for a route that has no stored tab whose meta owns
\* an affixTab property, and a list that is not full of pinned tabs.
C32_AffixFreshRoutesPinned ==
    [][last'.op = "setAffixTabs" =>
        \A routes \in AffixRouteLists :
            setAffixTabs(routes) =>
                \A i \in DOMAIN routes :
                    LET tab == routeToTab(routes[i], routeAffix')
                        index == indexOfTab(tabs, tab)
                    IN (/\ isTabShown(tab)
                        /\ Len(routes) = 1
                        /\ IF index # 0 THEN tabs[index].meta.affixTab = {}
                           ELSE addTabHow(tabs, tab, maxCount) # "full")
                       => \E j \in DOMAIN tabs' :
                              /\ getTabKeyFromTab(tabs'[j]) = getTabKeyFromTab(tab)
                              /\ tabs'[j].meta.affixTab = {TRUE}]_vars


\* C33: in every state, a name of which at least one refresh (in either
\* form) has started and not yet finished its settle delay is a member of
\* excludeCachedTabs; this also when several refreshes of the name overlap.
C33_ExcludedWhileSettling ==
    \A call \in Settling : call.name \in excludeCachedTabs

\* A name is excluded while a call of it waits beside which no other call
\* has waited since it was made.
C33_ExcludedWhileOnlyCall ==
    \A call \in Settling : call.alone => call.name \in excludeCachedTabs

\* C34: renderRouteView is false exactly when at least one refresh(router)
\* is inside its settle window, and true when none is, for any interleaving
\* of refresh calls.
C34_ViewHiddenWhileSettling ==
    renderRouteView = ~(\E call \in Settling : call.router)

\* The view is rendered when no refresh(router) waits, and is not rendered
\* while one waits beside which no other call has waited since it was made.
C34_ViewHiddenWhileOnlyCall ==
    /\ (\A call \in Settling : ~call.router) => renderRouteView
    /\ \A call \in Settling : (call.router /\ call.alone) => ~renderRouteView


\* C35: with a positive maxCount the number of stored tabs never exceeds
\* it, after any sequence of addTab, setAffixTabs, pinTab, unpinTab and
\* closes from an empty list.
C35_CountWithinMax ==
    maxCount > 0 => Len(tabs) <= maxCount


\* Every pinned record is stored before every unpinned one.
pinnedFirst(ts) ==
    \A i \in DOMAIN ts, j \in DOMAIN ts :
        (isAffixTab(ts[i]) /\ ~isAffixTab(ts[j])) => i < j

\* C36: pinTab and unpinTab keep a pinned-first layout: if every pinned
\* record is stored before every unpinned one before the call, so it is
\* after it; the set of keys is the same, the target record differs in its
\* affixTab only, and the other records keep their order.
C36_PinnedFirstKept ==
    [][(last'.op \in {"pinTab", "unpinTab"} /\ pinnedFirst(tabs)) =>
         LET key == last'.key
             i == indexOfKey(tabs, key)
             j == indexOfKey(tabs', key)
         IN /\ pinnedFirst(tabs')
            /\ keysOf(tabs') = keysOf(tabs)
            /\ Len(tabs') = Len(tabs)
            /\ i # 0 =>
                 /\ j # 0
                 /\ tabs'[j] = [tabs[i] EXCEPT !.meta.affixTab = {last'.op = "pinTab"}]
                 /\ removeAt(tabs', j) = removeAt(tabs, i)
            /\ i = 0 => tabs' = tabs]_vars


\* The record stored under a key.
storedAt(key) == tabs[indexOfKey(tabs, key)]

\* C37: closeTabByKey agrees with closeTab: for every key of a stored
\* record, as getTabKey made it (a raw key kept after a failed decoding
\* included), closeTabByKey(key) does to tabs, cachedTabs and the router
\* location what closeTab of that record does, and raises no error; for a
\* key of no record it changes nothing.
C37_ByKeyAgrees ==
    [][\A key \in ByKeyArgs :
          closeTabByKey(key) =>
              IF key \in keysOf(tabs)
              THEN /\ last'.how # "URIError"
                   /\ closeTab(storedAt(key))
              ELSE UNCHANGED <<tabs, cachedTabs, currentRoute, pending>>]_vars

\* The same for the keys that decodeURIComponent returns as they are.
C37_ByKeyAgreesUnescaped ==
    [][\A key \in ByKeyArgs :
          (closeTabByKey(key) /\ decodeURIComponent(key) = {key}) =>
              IF key \in keysOf(tabs)
              THEN /\ last'.how # "URIError"
                   /\ closeTab(storedAt(key))
              ELSE UNCHANGED <<tabs, cachedTabs, currentRoute, pending>>]_vars


\* C38: refresh and refreshByName leave the list alone: no step of their
\* cycle, the call or the end of the settle delay, changes tabs,
\* cachedTabs or dragEndIndex or starts a navigation, whatever else is
\* under way.
C38_RefreshFrame ==
    [][last'.op \in {"refresh", "refreshByName"} =>
          UNCHANGED <<tabs, cachedTabs, dragEndIndex, pending, currentRoute>>]_vars

\* A refresh has settled while tabs are stored, a cache is kept, the
\* navigation of a closeTab is awaited and another refresh still waits.
C38_Witness ==
    /\ last.op = "refresh"
    /\ last.how = "settled"
    /\ tabs # <<>>
    /\ cachedTabs # {}
    /\ pending # NoNav
    /\ settling # <<>>

===========================================================================
